---- MODULE Spec2Model ----
(***************************************************************************)
(* A model of the FIFA IT card generator: CardService (current player,     *)
(* rating aggregation, input sanitization), the AppComponent handlers that *)
(* drive it, and BatchService (CSV / JSON / photo ZIP import).             *)
(*                                                                         *)
(* JavaScript strings are TLA+ strings; a character is a string of length  *)
(* one.  Timestamps (createdAt, updatedAt) are left out: no operation      *)
(* modelled here reads them.                                               *)
(***************************************************************************)
EXTENDS Integers, Sequences, FiniteSets, TLC

(***************************************************************************)
(* Bounds of the model.                                                    *)
(***************************************************************************)
\* Largest number of data rows (CSV) or items (JSON) of an imported file.
MaxRows == 2

(***************************************************************************)
(* JavaScript string primitives.  A scan jumps from one character of       *)
(* interest to the next, or treats a range of characters as its first half *)
(* followed by its second half.  JavaScript passes arguments by value: a   *)
(* loop whose state goes from one pass to the next is a function of that   *)
(* state, which TLC applies to the value of its argument (Any is the set   *)
(* of the TLC module that has every value as an element).                  *)
(***************************************************************************)
Char(s, i) == SubSeq(s, i, i)

Min(a, b) == IF a < b THEN a ELSE b
Max(a, b) == IF a > b THEN a ELSE b

\* The positions of s, from position lo on, whose character is in the set cs.
PositionsOf(s, cs, lo) == {i \in lo..Len(s) : Char(s, i) \in cs}

\* The least element of the set of positions P, 0 when P is empty.  (A
\* function is applied to the value of its argument, so P is computed once.)
LeastOf == [P \in SUBSET Nat |-> IF P = {} THEN 0 ELSE CHOOSE i \in P : \A k \in P : i <= k]

First(P) == LeastOf[P]

\* The greatest element of P, 0 when P is empty.
GreatestOf ==
    [P \in SUBSET Nat |-> IF P = {} THEN 0 ELSE CHOOSE i \in P : \A k \in P : i >= k]

Last(P) == GreatestOf[P]

\* The white space String.prototype.trim removes (the part that occurs here).
WhiteSpace == {" ", "\t", "\r", "\n"}

\* String.prototype.trim
Trim(s) ==
    LET inked == {i \in 1..Len(s) : Char(s, i) \notin WhiteSpace}
    IN IF inked = {} THEN "" ELSE SubSeq(s, First(inked), Last(inked))

TrimStart(s) ==
    LET inked == {i \in 1..Len(s) : Char(s, i) \notin WhiteSpace}
    IN IF inked = {} THEN "" ELSE SubSeq(s, First(inked), Len(s))

\* String.prototype.substring(a, b): arguments clamped to [0, length], swapped
\* when a > b.
Substring(s, a, b) ==
    LET ca == Max(0, Min(a, Len(s)))
        cb == Max(0, Min(b, Len(s)))
    IN SubSeq(s, Min(ca, cb) + 1, Max(ca, cb))

LowerAlphabet == "abcdefghijklmnopqrstuvwxyz"
UpperAlphabet == "ABCDEFGHIJKLMNOPQRSTUVWXYZ"
LowerLetters == {Char(LowerAlphabet, i) : i \in 1..Len(LowerAlphabet)}
UpperLetters == {Char(UpperAlphabet, i) : i \in 1..Len(UpperAlphabet)}

\* Position of character c in string s, 0 when absent.
IndexOfChar(s, c) == First(PositionsOf(s, {c}, 1))

UpperChar(c) ==
    IF c \in LowerLetters THEN Char(UpperAlphabet, IndexOfChar(LowerAlphabet, c)) ELSE c

LowerChar(c) ==
    IF c \in UpperLetters THEN Char(LowerAlphabet, IndexOfChar(UpperAlphabet, c)) ELSE c

\* String.prototype.toUpperCase (ASCII), on s[lo..hi]
RECURSIVE UpperRange(_, _, _)
UpperRange(s, lo, hi) ==
    IF lo > hi THEN ""
    ELSE IF lo = hi THEN UpperChar(Char(s, lo))
    ELSE UpperRange(s, lo, (lo + hi) \div 2) \o UpperRange(s, (lo + hi) \div 2 + 1, hi)

UpperCased == [s \in STRING |-> UpperRange(s, 1, Len(s))]

ToUpperCase(s) == UpperCased[s]

\* String.prototype.toLowerCase (ASCII), on s[lo..hi]
RECURSIVE LowerRange(_, _, _)
LowerRange(s, lo, hi) ==
    IF lo > hi THEN ""
    ELSE IF lo = hi THEN LowerChar(Char(s, lo))
    ELSE LowerRange(s, lo, (lo + hi) \div 2) \o LowerRange(s, (lo + hi) \div 2 + 1, hi)

LowerCased == [s \in STRING |-> LowerRange(s, 1, Len(s))]

ToLowerCase(s) == LowerCased[s]

\* String.prototype.split(sep) for a one-character separator, of s[lo..hi]:
\* the pieces before and after one separator, the one nearest to the middle.
RECURSIVE SplitFrom(_, _, _, _)
SplitFrom(s, sep, lo, hi) ==
    LET seps == {i \in lo..hi : Char(s, i) = sep}
        before == Last({i \in seps : 2 * i <= lo + hi})
        at == IF before # 0 THEN before ELSE First(seps)
    IN IF seps = {} THEN <<SubSeq(s, lo, hi)>>
       ELSE SplitFrom(s, sep, lo, at - 1) \o SplitFrom(s, sep, at + 1, hi)

Split(s, sep) == SplitFrom(s, sep, 1, Len(s))

\* Array.prototype.join: the first half of xs joined, sep, the second half
\* joined.
RECURSIVE Join(_, _)
Join(xs, sep) ==
    IF Len(xs) = 0 THEN ""
    ELSE IF Len(xs) = 1 THEN xs[1]
    ELSE Join(SubSeq(xs, 1, Len(xs) \div 2), sep) \o sep
         \o Join(SubSeq(xs, Len(xs) \div 2 + 1, Len(xs)), sep)

Digits == "0123456789"
DigitChars == {Char(Digits, i) : i \in 1..Len(Digits)}

\* parseInt(s, 10): leading white space skipped, an optional sign, then the
\* longest run of digits; NaN when there is no digit.
RECURSIVE DigitRun(_, _, _, _)
DigitRun(s, i, acc, seen) ==
    IF i <= Len(s) /\ Char(s, i) \in DigitChars
    THEN DigitRun(s, i + 1, 10 * acc + (IndexOfChar(Digits, Char(s, i)) - 1), TRUE)
    ELSE [nan |-> ~seen, val |-> acc]

ParseIntStr(str) ==
    LET s    == TrimStart(str)
        neg  == Len(s) > 0 /\ Char(s, 1) = "-"
        sgn  == Len(s) > 0 /\ Char(s, 1) \in {"-", "+"}
        r    == DigitRun(s, IF sgn THEN 2 ELSE 1, 0, FALSE)
    IN [nan |-> r.nan, val |-> IF neg THEN 0 - r.val ELSE r.val]

(***************************************************************************)
(* CardService: rating aggregation.                                        *)
(***************************************************************************)
StatKeys ==
    <<"technical", "leadership", "creativity", "reliability", "collaboration",
      "adaptability">>

StatKeySet == {StatKeys[i] : i \in 1..Len(StatKeys)}

\* The sum of xs: of its first half and of its second half.
RECURSIVE SumSeq(_)
SumSeq(xs) ==
    IF Len(xs) = 0 THEN 0
    ELSE IF Len(xs) = 1 THEN xs[1]
    ELSE SumSeq(SubSeq(xs, 1, Len(xs) \div 2))
         + SumSeq(SubSeq(xs, Len(xs) \div 2 + 1, Len(xs)))

\* Object.values(stats)
StatValues(stats) == [i \in 1..Len(StatKeys) |-> stats[StatKeys[i]]]

\* Math.round of the quotient num / den (den > 0): floor(x + 1/2).
MathRoundTrunc(num, den) == num \div den
MathRound(num, den) == (2 * num + den) \div (2 * den)

calculateOverallRating(stats) ==
    LET values == StatValues(stats)
    IN MathRound(SumSeq(values), Len(values))

(***************************************************************************)
(* CardService.sanitizeInput                                               *)
(***************************************************************************)
blockedWords == <<"test", "dummy", "fake">>

\* s.replace(new RegExp(word, 'gi'), mask) from position i on, for
\* a = <<s, word in lower case, mask, i>>: matches are taken left to right
\* and do not overlap, letters are compared without case.
ReplaceFrom[a \in STRING \X STRING \X STRING \X Nat] ==
    LET s == a[1]
        word == a[2]
        i == a[4]
        m == First({j \in i..(Len(s) - Len(word) + 1) :
                        ToLowerCase(SubSeq(s, j, j + Len(word) - 1)) = word})
    IN IF m = 0 THEN SubSeq(s, i, Len(s))
       ELSE SubSeq(s, i, m - 1) \o a[3] \o ReplaceFrom[<<s, word, a[3], m + Len(word)>>]

ReplaceAllCI(s, word, mask) == ReplaceFrom[<<s, ToLowerCase(word), mask, 1>>]

\* blockedWords.forEach(word => sanitized = sanitized.replace(...)) from the
\* word at a[2] on, for sanitized = a[1].
MaskWords[a \in STRING \X Nat] ==
    IF a[2] > Len(blockedWords) THEN a[1]
    ELSE MaskWords[<<ReplaceAllCI(a[1], blockedWords[a[2]], "***"), a[2] + 1>>]

sanitizeInput(input, maxLength) ==
    LET sanitized == MaskWords[<<Trim(input), 1>>]
    IN IF Len(sanitized) > maxLength
       THEN Substring(sanitized, 0, maxLength - 3) \o "..."
       ELSE sanitized

(***************************************************************************)
(* JavaScript values that are not plain strings or integers: optional      *)
(* fields and JSON data.  Every value is a record with a type tag t.       *)
(***************************************************************************)
Undefined == [t |-> "undefined"]
JNull == [t |-> "null"]
JStr(s) == [t |-> "string", s |-> s]
JNum(n) == [t |-> "number", n |-> n]
JBool(b) == [t |-> "boolean", b |-> b]
JArr(a) == [t |-> "array", a |-> a]
JObj(o) == [t |-> "object", o |-> o]

\* ToBoolean
Truthy(v) ==
    CASE v.t \in {"undefined", "null"} -> FALSE
      [] v.t = "string" -> v.s # ""
      [] v.t = "number" -> v.n # 0
      [] v.t = "boolean" -> v.b
      [] OTHER -> TRUE

\* a || b
Or(a, b) == IF Truthy(a) THEN a ELSE b

(***************************************************************************)
(* CardService: the current player.                                        *)
(***************************************************************************)
VARIABLES
    currentPlayer,  \* currentPlayerSubject.value
    cardForm,       \* AppComponent.cardForm.value
    published,      \* the players the last handler published, in order
    calls,          \* the arguments of the updatePlayer calls of the last handler
    handler,        \* the last AppComponent handler that ran
    cardHistory,    \* StorageService.historySubject.value
    localStorage,   \* window.localStorage: the item under each key
    storageCalls,   \* the StorageService calls of the session, in order
    batchCards      \* BatchService.batchCardsSubject.value

cardVars == <<currentPlayer, cardForm, published, calls, handler, cardHistory,
              localStorage, storageCalls>>

Stats(t, l, c, r, co, a) ==
    [technical |-> t, leadership |-> l, creativity |-> c, reliability |-> r,
     collaboration |-> co, adaptability |-> a]

createDefaultPlayer ==
    [id |-> JStr("card-0"),
     name |-> "Larry Mota",
     position |-> "DEV",
     nationality |-> "FR",
     rating |-> 85,
     manualRating |-> FALSE,
     stats |-> Stats(88, 82, 90, 85, 83, 87),
     backgroundTheme |-> "gold-classic",
     profilePhoto |-> Undefined,
     customLogo |-> Undefined]

\* { ...currentPlayer, ...player }
Spread(base, over) ==
    [k \in DOMAIN base \cup DOMAIN over |->
        IF k \in DOMAIN over THEN over[k] ELSE base[k]]

\* player.manualRating as a condition: a missing field is undefined, falsy.
PartialManual(player) ==
    "manualRating" \in DOMAIN player /\ player["manualRating"]

\* The player updatePlayer publishes.
updatePlayer(current, player) ==
    LET updatedPlayer == Spread(current, player)
    IN IF ~PartialManual(player) /\ "stats" \in DOMAIN player
       THEN [updatedPlayer EXCEPT !["rating"] =
                calculateOverallRating(updatedPlayer["stats"])]
       ELSE updatedPlayer

(***************************************************************************)
(* AppComponent: the reactive form and the handlers that call updatePlayer.*)
(***************************************************************************)
FormFields == {"name", "position", "nationality", "rating"} \cup StatKeySet

\* updateFormFromPlayer: patchValue(..., { emitEvent: false })
updateFormFromPlayer(form, player) ==
    [k \in FormFields |->
        IF k \in StatKeySet THEN player["stats"][k] ELSE player[k]]

AllUpperLetters(s) == \A i \in 1..Len(s) : Char(s, i) \in UpperLetters

\* cardForm.valid under the validators of initializeForm
FormValid(form) ==
    /\ Len(form["name"]) > 0 /\ Len(form["name"]) <= 30
    /\ Len(form["position"]) > 0
    /\ Len(form["nationality"]) \in 2..3 /\ AllUpperLetters(form["nationality"])
    /\ form["rating"] >= 1 /\ form["rating"] <= 99
    /\ \A k \in StatKeySet : form[k] >= 1 /\ form[k] <= 99

\* The argument updatePlayerFromForm passes to updatePlayer.
updatePlayerFromForm(formValues) ==
    [name |-> sanitizeInput(formValues["name"], 30),
     position |-> formValues["position"],
     nationality |-> ToUpperCase(formValues["nationality"]),
     rating |-> formValues["rating"],
     stats |-> [k \in StatKeySet |-> formValues[k]]]

\* A handler run is folded over u: the player, the form, and the publications
\* and updatePlayer arguments so far.  One updatePlayer call publishes the new
\* player, and the currentPlayer$ subscription copies it into the form.
Run(player, form) == [player |-> player, form |-> form, pubs |-> <<>>, args |-> <<>>]

CallUpdate[a \in Any \X Any] ==
    LET u == a[1]
        partial == a[2]
        np == updatePlayer(u.player, partial)
    IN [player |-> np,
        form |-> updateFormFromPlayer(u.form, np),
        pubs |-> Append(u.pubs, np),
        args |-> Append(u.args, partial)]

\* cardForm.valueChanges: the subscriber updates the player when the form is valid.
ValueChanges[u \in Any] ==
    IF FormValid(u.form) THEN CallUpdate[<<u, updatePlayerFromForm(u.form)>>] ELSE u

\* cardForm.patchValue(patch), which emits valueChanges
PatchValue[a \in Any \X Any] ==
    ValueChanges[[a[1] EXCEPT !.form = Spread(a[1].form, a[2])]]

randomizeStatsHandler(u, newStats) ==
    PatchValue[<<CallUpdate[<<u, [stats |-> newStats, manualRating |-> FALSE]>>],
                 newStats>>]

recomputeRating(u) ==
    LET newRating == calculateOverallRating(u.player["stats"])
    IN PatchValue[<<CallUpdate[<<u, [rating |-> newRating, manualRating |-> FALSE]>>],
                    [rating |-> newRating]>>]

resetStats(u) ==
    LET defaultStats == Stats(75, 75, 75, 75, 75, 75)
    IN PatchValue[<<CallUpdate[<<u, [stats |-> defaultStats, manualRating |-> FALSE]>>],
                    defaultStats>>]

toggleManualRating(u) ==
    LET manual == ~u.player["manualRating"]
        u1 == CallUpdate[<<u, [manualRating |-> manual]>>]
    IN IF ~manual THEN recomputeRating(u1) ELSE u1

TemplateIds == {"gold-classic", "dark-mode-it", "silver-modern", "bronze-vintage", "totw"}

selectTemplate(u, templateId) ==
    IF templateId \in TemplateIds
    THEN CallUpdate[<<u, [backgroundTheme |-> templateId]>>]
    ELSE u

duplicateCard(u) ==
    CallUpdate[<<u, [u.player EXCEPT !["id"] = Undefined,
                                     !["name"] = u.player["name"] \o " (Copy)"]>>]

loadBatchCard(u, card) == CallUpdate[<<u, card>>]

loadFromHistory(u, stored) == CallUpdate[<<u, stored["playerData"]>>]

(***************************************************************************)
(* BatchService: the helpers of the import pipeline.                       *)
(***************************************************************************)
\* obj.key for a key that is no built-in property; the caller handles the
\* TypeError of a null or undefined obj.
Prop(v, key) ==
    IF v.t = "object" /\ key \in DOMAIN v.o THEN v.o[key] ELSE Undefined

\* obj?.key
OptProp(v, key) == IF v.t \in {"undefined", "null"} THEN Undefined ELSE Prop(v, key)

NaN == [nan |-> TRUE, val |-> 0]

\* parseInt(value, 10) of a JavaScript value: the value is converted to a string
\* first.  Numbers of the model are integers; String(array) starts with its
\* first element.
RECURSIVE ParseIntJs(_)
ParseIntJs(v) ==
    CASE v.t = "string" -> ParseIntStr(v.s)
      [] v.t = "number" -> [nan |-> FALSE, val |-> v.n]
      [] v.t = "array" -> IF Len(v.a) = 0 THEN NaN ELSE ParseIntJs(v.a[1])
      [] OTHER -> NaN

ClampNone(parsed) == parsed

\* Math.max(1, Math.min(99, parsed))
Clamp(parsed) == Max(1, Min(99, parsed))

clampStat(value) ==
    LET parsed == ParseIntJs(value)
    IN IF ~parsed.nan THEN Clamp(parsed.val) ELSE 75

validPositions == {"DEV", "OPS", "DATA", "PM", "QA", "UX", "SEC", "ARCH"}

\* position?.toUpperCase() of a string, or of undefined / null (no string).
validatePosition(position) ==
    LET upperPosition ==
            IF position.t = "string" THEN ToUpperCase(position.s) ELSE ""
    IN IF upperPosition \in validPositions THEN upperPosition ELSE "DEV"

validThemes == {"gold-classic", "dark-mode-it", "silver-modern", "bronze-vintage"}

validateTheme(theme) ==
    IF theme.t = "string" /\ theme.s \in validThemes THEN theme.s ELSE "gold-classic"

\* The loop of parseCSVLine over the characters line[lo..hi], entered in the
\* state st (result, current, inQuotes): a quote toggles inQuotes and is
\* dropped, a comma outside quotes ends the cell, which is trimmed, and any
\* other character is added to the cell.  The loop over a range is the loop
\* over its first half, then the loop over its second half entered in the
\* state the first one ends in.
CsvScan[a \in STRING \X Nat \X Nat \X Any] ==
    LET line == a[1]
        lo == a[2]
        hi == a[3]
        st == a[4]
        mid == (lo + hi) \div 2
        char == Char(line, lo)
    IN IF lo > hi THEN st
       ELSE IF lo < hi THEN CsvScan[<<line, mid + 1, hi, CsvScan[<<line, lo, mid, st>>]>>]
       ELSE IF char = "\"" THEN [st EXCEPT !.inQuotes = ~@]
       ELSE IF char = "," /\ ~st.inQuotes
       THEN [st EXCEPT !.result = Append(@, Trim(st.current)), !.current = ""]
       ELSE [st EXCEPT !.current = @ \o char]

parseCSVLine(line) ==
    LET st == CsvScan[<<line, 1, Len(line),
                        [result |-> <<>>, current |-> "", inQuotes |-> FALSE]>>]
    IN Append(st.result, Trim(st.current))

\* headers.indexOf(field) from position i on, 1-based; 0 when absent
IndexOfSeq(xs, x, i) == First({k \in i..Len(xs) : xs[k] = x})

\* getValue of parsePlayerDataFromCSV
getValue(headers, values, field) ==
    LET index == IndexOfSeq(headers, field, 1)
    IN IF index > 0 /\ index <= Len(values) THEN Trim(values[index]) ELSE ""

getNumericValueOr75(headers, values, field, defaultValue) ==
    LET parsed == ParseIntStr(getValue(headers, values, field))
    IN IF ~parsed.nan THEN Clamp(parsed.val) ELSE 75

\* getNumericValue of parsePlayerDataFromCSV
getNumericValue(headers, values, field, defaultValue) ==
    LET parsed == ParseIntStr(getValue(headers, values, field))
    IN IF ~parsed.nan THEN Clamp(parsed.val) ELSE defaultValue

CsvManualAlways(headers, values) == TRUE
CsvManual(headers, values) == getValue(headers, values, "rating") # ""

parsePlayerDataFromCSV(headers, values, rowIndex, now) ==
    LET stats == [k \in StatKeySet |-> getNumericValue(headers, values, k, 75)]
    IN [id |-> JStr("batch_" \o ToString(rowIndex) \o "_" \o now),
        name |-> sanitizeInput(getValue(headers, values, "name"), 30),
        position |-> validatePosition(JStr(getValue(headers, values, "position"))),
        nationality |->
            Substring(ToUpperCase(getValue(headers, values, "nationality")), 0, 3),
        rating |-> getNumericValue(headers, values, "rating",
                                   calculateOverallRating(stats)),
        manualRating |-> CsvManual(headers, values),
        stats |-> stats,
        backgroundTheme |-> validateTheme(JStr(getValue(headers, values, "theme"))),
        profilePhoto |-> Undefined,
        customLogo |-> Undefined]

\* The TypeErrors of parsePlayerDataFromJSON: a property read of null, .trim()
\* or .toUpperCase() of a value that is no string.
JsonItemThrows(jsonItem) ==
    \/ jsonItem.t \in {"null", "undefined"}
    \/ Or(Prop(jsonItem, "name"), JStr("")).t # "string"
    \/ Prop(jsonItem, "position").t \notin {"string", "undefined", "null"}
    \/ Or(Prop(jsonItem, "nationality"), JStr("")).t # "string"

\* jsonItem.k || jsonItem.stats?.k || 75
JsonStatSource(jsonItem, k) ==
    Or(Or(Prop(jsonItem, k), OptProp(Prop(jsonItem, "stats"), k)), JNum(75))

parsePlayerDataFromJSON(jsonItem, index, now) ==
    LET stats == [k \in StatKeySet |-> clampStat(JsonStatSource(jsonItem, k))]
        rating == Prop(jsonItem, "rating")
    IN [id |-> Or(Prop(jsonItem, "id"),
                  JStr("batch_json_" \o ToString(index) \o "_" \o now)),
        name |-> sanitizeInput(Or(Prop(jsonItem, "name"), JStr("")).s, 30),
        position |-> validatePosition(Prop(jsonItem, "position")),
        nationality |->
            Substring(ToUpperCase(Or(Prop(jsonItem, "nationality"), JStr("")).s), 0, 3),
        rating |-> IF Truthy(rating) THEN clampStat(rating)
                   ELSE calculateOverallRating(stats),
        manualRating |-> Truthy(rating),
        stats |-> stats,
        backgroundTheme |->
            validateTheme(Or(Prop(jsonItem, "theme"), Prop(jsonItem, "backgroundTheme"))),
        profilePhoto |-> Or(Prop(jsonItem, "profilePhoto"), Prop(jsonItem, "photo")),
        customLogo |-> Or(Prop(jsonItem, "customLogo"), Prop(jsonItem, "logo"))]

\* errors and warnings of validatePlayerData, in the order they are pushed
validationErrorsNameOnly(playerData) ==
    IF Len(playerData.name) = 0 THEN <<"Name is required">> ELSE <<>>
validationErrors(playerData) ==
    (IF Len(playerData.name) = 0 THEN <<"Name is required">> ELSE <<>>)
    \o (IF Len(playerData.position) = 0 THEN <<"Position is required">> ELSE <<>>)
    \o (IF Len(playerData.nationality) < 2
        THEN <<"Valid nationality code is required">> ELSE <<>>)

validationWarningsRatingOnly(playerData) ==
    (IF playerData.rating < 50 THEN <<"Rating seems unusually low">> ELSE <<>>)
    \o (IF playerData.rating > 95 THEN <<"Rating seems unusually high">> ELSE <<>>)

validationWarnings(playerData) ==
    (IF Len(playerData.name) > 25
     THEN <<"Name is quite long and may not display well">> ELSE <<>>)
    \o (IF playerData.rating < 50 THEN <<"Rating seems unusually low">> ELSE <<>>)
    \o (IF playerData.rating > 95 THEN <<"Rating seems unusually high">> ELSE <<>>)

validatePlayerData(playerData) ==
    LET errors == validationErrors(playerData)
    IN [isValid |-> Len(errors) = 0,
        errors |-> errors,
        warnings |-> validationWarnings(playerData)]

Snapshot(current, total, status, message) ==
    [current |-> current, total |-> total, status |-> status, message |-> message]

EmptyResult == [success |-> <<>>, errors |-> <<>>, warnings |-> <<>>]

\* One pass of the row loop of importFromCSV / importFromJSON after the row
\* was parsed: the result with the row classified.
Classify[a \in Any \X Nat \X Any \X Any] ==
    LET result == a[1]
        row == a[2]
        playerData == a[3]
        raw == a[4]
        validation == validatePlayerData(playerData)
    IN IF ~validation.isValid
       THEN [result EXCEPT !.errors =
                Append(@, [row |-> row, message |-> Join(validation.errors, ", "),
                           data |-> raw])]
       ELSE [success |-> Append(result.success, playerData),
             errors |-> result.errors,
             warnings |->
                IF Len(validation.warnings) > 0
                THEN Append(result.warnings,
                            [row |-> row, message |-> Join(validation.warnings, ", "),
                             data |-> playerData])
                ELSE result.warnings]

RowErrorDropped(result, row, message, raw) == result

\* The catch of the row loop.
RowError(result, row, message, raw) ==
    [result EXCEPT !.errors = Append(@, [row |-> row, message |-> message, data |-> raw])]

\* Array.prototype.filter(line => line.trim())
NonBlank(lines) == SelectSeq(lines, LAMBDA line : Trim(line) # "")

\* .map(h => h.trim().toLowerCase())
MapHeader(cells) == [i \in 1..Len(cells) |-> ToLowerCase(Trim(cells[i]))]

requiredFields == <<"name", "position", "nationality">>

MissingNone(fields, headers) == <<>>

\* requiredFields.filter(field => !headers.includes(field))
RECURSIVE MissingOf(_, _)
MissingOf(fields, headers) ==
    IF Len(fields) = 0 THEN <<>>
    ELSE (IF IndexOfSeq(headers, fields[1], 1) = 0 THEN <<fields[1]>> ELSE <<>>)
         \o MissingOf(Tail(fields), headers)

\* The row loop of importFromCSV from row i on: the snapshots it publishes and
\* the result it accumulates.  A row without values is skipped once its
\* snapshot is published (parseCSVLine returns at least one cell, so no row
\* is), and nothing in the loop throws.
CsvLoop[a \in Seq(STRING) \X Seq(STRING) \X Nat \X STRING \X Any] ==
    LET headers == a[1]
        lines == a[2]
        i == a[3]
        now == a[4]
        acc == a[5]
        snap == Snapshot(i, Len(lines) - 1, "processing",
                         "Processing row " \o ToString(i) \o "...")
        values == parseCSVLine(lines[i + 1])
        playerData == parsePlayerDataFromCSV(headers, values, i, now)
    IN IF i > Len(lines) - 1 THEN acc
       ELSE IF Len(values) = 0
       THEN CsvLoop[<<headers, lines, i + 1, now,
                      [emitted |-> Append(acc.emitted, snap), result |-> acc.result]>>]
       ELSE CsvLoop[<<headers, lines, i + 1, now,
                      [emitted |-> Append(acc.emitted, snap),
                       result |-> Classify[<<acc.result, i, playerData, values>>]]>>]

CompletedRows(result) ==
    Snapshot(Len(result.success) + Len(result.errors),
             Len(result.success) + Len(result.errors), "completed",
             "Imported " \o ToString(Len(result.success)) \o " cards successfully")

Completed(result) ==
    Snapshot(Len(result.success), Len(result.success), "completed",
             "Imported " \o ToString(Len(result.success)) \o " cards successfully")

FailedSilently(message) == Snapshot(0, 0, "processing", message)

Failed(message) == Snapshot(0, 0, "error", message)

RejectedPublishing(message) ==
    [outcome |-> "rejected", message |-> message, result |-> EmptyResult,
     emitted |-> <<Failed(message)>>, publishes |-> TRUE]

\* What a call of an importer does once its read has resolved: the snapshots
\* it publishes, whether its promise resolves, and the result (or the error).
Rejected(message) ==
    [outcome |-> "rejected", message |-> message, result |-> EmptyResult,
     emitted |-> <<Failed(message)>>, publishes |-> FALSE]

Resolved(run) ==
    [outcome |-> "resolved", message |-> "", result |-> run.result,
     emitted |-> Append(run.emitted, Completed(run.result)), publishes |-> TRUE]

\* importFromCSV after "await file.text()"
importFromCSV(text, now) ==
    LET lines == NonBlank(Split(text, "\n"))
    IN IF Len(lines) = 0 THEN Rejected("Empty CSV file")
       ELSE
         LET headers == MapHeader(Split(lines[1], ","))
             missingRequired == MissingOf(requiredFields, headers)
         IN IF Len(missingRequired) > 0
            THEN Rejected("Missing required columns: " \o Join(missingRequired, ", "))
            ELSE Resolved(CsvLoop[<<headers, lines, 1, now,
                                    [emitted |-> <<>>, result |-> EmptyResult]>>])

\* The row loop of importFromJSON from index i (0-based) on.
JsonLoop[a \in Any \X Nat \X STRING \X Any] ==
    LET playersArray == a[1]
        i == a[2]
        now == a[3]
        acc == a[4]
        snap == Snapshot(i, Len(playersArray), "processing",
                         "Processing item " \o ToString(i + 1) \o "...")
        item == playersArray[i + 1]
    IN IF i >= Len(playersArray) THEN acc
       ELSE JsonLoop[<<playersArray, i + 1, now,
                       [emitted |-> Append(acc.emitted, snap),
                        result |->
                           IF JsonItemThrows(item)
                           THEN RowError(acc.result, i + 1, "TypeError", item)
                           ELSE Classify[<<acc.result, i + 1,
                                           parsePlayerDataFromJSON(item, i, now),
                                           item>>]]>>]

\* The array importFromJSON reads the players from; "none" when the structure
\* is invalid (jsonData.cards of null throws a TypeError, caught the same way).
playersArrayOf(jsonData) ==
    IF jsonData.t = "array" THEN [found |-> TRUE, a |-> jsonData.a]
    ELSE IF jsonData.t \in {"null", "undefined"} THEN [found |-> FALSE, a |-> <<>>]
    ELSE IF Truthy(Prop(jsonData, "cards")) /\ Prop(jsonData, "cards").t = "array"
    THEN [found |-> TRUE, a |-> Prop(jsonData, "cards").a]
    ELSE IF Truthy(Prop(jsonData, "players")) /\ Prop(jsonData, "players").t = "array"
    THEN [found |-> TRUE, a |-> Prop(jsonData, "players").a]
    ELSE [found |-> FALSE, a |-> <<>>]

\* importFromJSON after "await file.text()".  A file is what JSON.parse makes
\* of its text: a SyntaxError (parses = FALSE) or a value.
importFromJSON(file, now) ==
    IF ~file.parses THEN Rejected("SyntaxError")
    ELSE
      LET players == playersArrayOf(file.value)
      IN IF ~players.found
         THEN Rejected(IF file.value.t \in {"null", "undefined"} THEN "TypeError"
                       ELSE "Invalid JSON structure. Expected array or object with \"cards\"/\"players\" property")
         ELSE Resolved(JsonLoop[<<players.a, 0, now,
                                  [emitted |-> <<>>, result |-> EmptyResult]>>])

(***************************************************************************)
(* BatchService: photo library.                                            *)
(***************************************************************************)
imageExtensions == <<".jpg", ".jpeg", ".png", ".gif", ".webp">>

EndsWithCI(s, suffix) ==
    Len(s) >= Len(suffix) /\
    ToLowerCase(SubSeq(s, Len(s) - Len(suffix) + 1, Len(s))) = suffix

\* /\.(jpg|jpeg|png|gif|webp)$/i.test(filename)
IsImageName(filename) ==
    \E i \in 1..Len(imageExtensions) : EndsWithCI(filename, imageExtensions[i])

\* filename.replace(/\.[^/.]+$/, '').toLowerCase(): the extension is the last
\* "." with at least one character after it, none of them "/" or ".".
photoKey(filename) ==
    LET d == Last(PositionsOf(filename, {".", "/"}, 1))
    IN ToLowerCase(IF d > 0 /\ d < Len(filename) /\ Char(filename, d) = "."
                   THEN SubSeq(filename, 1, d - 1)
                   ELSE filename)

\* Object.keys(zipContent.files).filter(image name and no directory)
imageFilesOf(files) == SelectSeq(files, LAMBDA file : file.image /\ ~file.dir)

\* Map.prototype.set
MapSet(m, key, value) == (key :> value) @@ m

\* s.replace(/\s+/g, '_') of s = a[1] from position i = a[2] on: every run
\* of white space becomes one underscore.
UnderscoreRuns[a \in STRING \X Nat] ==
    LET s == a[1]
        i == a[2]
        w == First(PositionsOf(s, WhiteSpace, i))
    IN IF w = 0 THEN SubSeq(s, i, Len(s))
       ELSE
         LET after == First({j \in w..Len(s) : Char(s, j) \notin WhiteSpace})
         IN SubSeq(s, i, w - 1) \o "_"
            \o (IF after = 0 THEN "" ELSE UnderscoreRuns[<<s, after>>])

cardKeyLowerCased(card) == ToLowerCase(card["name"])

\* card.name.toLowerCase().replace(/\s+/g, '_')
cardKey(card) == UnderscoreRuns[<<ToLowerCase(card["name"]), 1>>]

matchCard(card, photos) ==
    IF ~Truthy(card["profilePhoto"]) /\ cardKey(card) \in DOMAIN photos
       /\ photos[cardKey(card)] # ""
    THEN [card EXCEPT !["profilePhoto"] = JStr(photos[cardKey(card)])]
    ELSE card

(***************************************************************************)
(* BatchService: state.  An import call is an async function: it runs to   *)
(* its first await, is resumed when the awaited promise settles, and runs  *)
(* synchronously in between.  A pending call occupies a slot.              *)
(***************************************************************************)
VARIABLES
    batchProgress,  \* batchProgressSubject.value
    progressBy,     \* what published batchProgress: "init", "import", "clearBatch"
    photoLibrary,   \* photoLibrarySubject.value
    pending,        \* slot -> the import call suspended in it
    lastCall,       \* the import call that returned last
    started,        \* number of import calls started so far
    probe           \* a pure function under examination: its input, then its output

batchVars ==
    <<batchCards, batchProgress, progressBy, photoLibrary, pending, lastCall, started>>

vars == <<cardVars, batchVars, probe>>

\* Largest number of import calls suspended at the same time.
MaxPending == 2

Slots == 1..MaxPending

\* Largest number of import calls in one behaviour.
MaxCalls == 2

\* A free slot.  A suspended call has its kind ("csv", "json", "zip"), the await
\* it is suspended at ("text", "load", "blob"), the snapshots it has published,
\* and for a ZIP import its image files, its loop index and its photo map.
NoCall ==
    [kind |-> "none", at |-> "none", emitted |-> <<>>, zip |-> <<>>, files |-> <<>>,
     i |-> 0, photoMap |-> <<>>]

NoLastCall ==
    [kind |-> "none", input |-> "", now |-> "", outcome |-> "none", message |-> "",
     result |-> EmptyResult, emitted |-> <<>>]

startMessage(kind) ==
    CASE kind = "csv" -> "Reading CSV file..."
      [] kind = "json" -> "Reading JSON file..."
      [] kind = "zip" -> "Extracting photos from ZIP..."

\* Date.now() during an import call.
NowVals == {"1730000000000"}

(***************************************************************************)
(* Inputs: the files the importers are run on.                             *)
(***************************************************************************)
SeqsUpTo(S, n) == UNION {[1..k -> S] : k \in 0..n}

\* A CSV file is its header line and its other lines; its text joins them.
FileText(file) == Join(<<file.header>> \o file.rows, "\n")

CsvHeaderFull ==
    "name,position,nationality,rating,theme,technical,leadership,creativity,reliability,collaboration,adaptability"

CsvHeaderRequired == " Name , POSITION,Nationality"

CsvRowPool ==
    {"Larry Mota,DEV,FR,85,gold-classic,88,82,90,85,83,87",
     "Sarah Chen,data,us,,dark-mode-it,92,78,88,90,85,82",
     ",OPS,GB,,gold-classic,85,88,75,92,80,85",
     "\"Doe, Jane\",QA,deu,0,totw,0,150,abc,,-5,99",
     "Maximilian Testerson-Featherstonehaugh,ARCH,FRAN,150,silver-modern,99,99,99,99,99,98",
     "Al,xx,GB,abc",
     "Bo,PM,F,40,dark-mode-it,1,2,3,4,5,6",
     "   "}

CsvRowPoolRequired ==
    {"Ann Lee,ux,gb", "Cy,SEC,Z", ",,", "Alexandria Montgomery-Hale,pm,ie"}

\* BatchService.generateCSVTemplate
generateCSVTemplate ==
    LET headers ==
            <<"name", "position", "nationality", "rating", "theme", "technical",
              "leadership", "creativity", "reliability", "collaboration", "adaptability">>
        examples ==
            << <<"Larry Mota", "DEV", "FR", "85", "gold-classic",
                 "88", "82", "90", "85", "83", "87">>,
               <<"Sarah Chen", "DATA", "US", "", "dark-mode-it",
                 "92", "78", "88", "90", "85", "82">>,
               <<"Mike Johnson", "OPS", "GB", "", "gold-classic",
                 "85", "88", "75", "92", "80", "85">> >>
    IN Join(<<Join(headers, ",")>> \o [i \in 1..Len(examples) |-> Join(examples[i], ",")],
            "\n")

\* The file a user saves the template to.
TemplateFile ==
    LET lines == Split(generateCSVTemplate, "\n")
    IN [header |-> lines[1], rows |-> Tail(lines)]

CsvFiles ==
    {[header |-> CsvHeaderFull, rows |-> r] : r \in SeqsUpTo(CsvRowPool, MaxRows)}
    \cup {[header |-> CsvHeaderRequired, rows |-> r] :
            r \in SeqsUpTo(CsvRowPoolRequired, MaxRows)}
    \cup {[header |-> "", rows |-> <<>>],
          [header |-> "  ", rows |-> <<"", " \r">>],
          [header |-> "position,nationality,rating", rows |-> <<"DEV,FR,85">>],
          [header |-> "name;position;nationality", rows |-> <<"Al;DEV;FR">>],
          [header |-> "\"name\",position", rows |-> <<>>],
          TemplateFile}

CsvRuns ==
    {[file |-> f, now |-> n, out |-> importFromCSV(FileText(f), n)] :
        f \in CsvFiles, n \in NowVals}

JsonItemPool ==
    {JObj([name |-> JStr("Larry Mota"), position |-> JStr("DEV"),
           nationality |-> JStr("FR"), rating |-> JNum(85), technical |-> JNum(88),
           leadership |-> JNum(82), creativity |-> JNum(90), reliability |-> JNum(85),
           collaboration |-> JNum(83), adaptability |-> JNum(87)]),
     JObj([name |-> JStr("John  Smith"), position |-> JStr("data"),
           nationality |-> JStr("us"), theme |-> JStr("dark-mode-it"),
           stats |-> JObj([technical |-> JNum(92), leadership |-> JNum(78),
                           creativity |-> JNum(88), reliability |-> JNum(90),
                           collaboration |-> JNum(85), adaptability |-> JNum(82)])]),
     JObj([name |-> JStr(""), position |-> JStr("DEV"), nationality |-> JStr("FR")]),
     JNull,
     JObj([name |-> JStr("Zed"), nationality |-> JStr("deu"), rating |-> JNum(0),
           technical |-> JNum(0), leadership |-> JStr("150"),
           creativity |-> JStr("abc"), reliability |-> JNum(-5),
           stats |-> JObj([technical |-> JNum(40)]), id |-> JStr("dup"),
           photo |-> JStr("data:zed")]),
     JObj([name |-> JNum(123), position |-> JStr("QA"), nationality |-> JStr("GB")]),
     JObj([name |-> JStr("Quy"), position |-> JStr("SEC"), nationality |-> JStr("VNM"),
           rating |-> JStr("abc"), id |-> JStr("dup")]),
     JObj([name |-> JStr("Amy Testa Dummy-Fakenham of Example"), position |-> JStr("UX"),
           nationality |-> JStr("G"), rating |-> JNum(150)]),
     JObj([name |-> JStr("Maximilian Featherstonehaugh III"), position |-> JStr("ARCH"),
           nationality |-> JStr("FRAN"), rating |-> JNum(150),
           backgroundTheme |-> JStr("totw")])}

JsonItemPoolWrapped ==
    {JObj([name |-> JStr("Ann Lee"), position |-> JStr("ux"), nationality |-> JStr("gb"),
           rating |-> JNum(40)]),
     JNum(7)}

JsonFiles ==
    {[parses |-> TRUE, value |-> JArr(a)] : a \in SeqsUpTo(JsonItemPool, MaxRows)}
    \cup {[parses |-> TRUE, value |-> JObj([cards |-> JArr(a)])] :
            a \in SeqsUpTo(JsonItemPoolWrapped, MaxRows)}
    \cup {[parses |-> TRUE, value |-> JObj([players |-> JArr(a)])] :
            a \in SeqsUpTo(JsonItemPoolWrapped, MaxRows)}
    \cup {[parses |-> FALSE, value |-> Undefined],
          [parses |-> TRUE, value |-> JNull],
          [parses |-> TRUE, value |-> JNum(5)],
          [parses |-> TRUE, value |-> JObj([items |-> JArr(<<JNum(7)>>)])],
          [parses |-> TRUE, value |-> JObj([cards |-> JStr("x"), players |-> JNum(0)])]}

JsonRuns ==
    {[file |-> f, now |-> n, out |-> importFromJSON(f, n)] : f \in JsonFiles, n \in NowVals}

\* An entry of a ZIP file: its name, whether it is a directory, whether its
\* content can be read, and what the importer derives from the name: whether
\* it names an image, and its key in the photo map.
ZipEntry(name, dir, readable) ==
    [name |-> name, dir |-> dir, readable |-> readable,
     image |-> IsImageName(name), key |-> photoKey(name)]

ZipFiles ==
    {[loads |-> FALSE, files |-> <<>>],
     [loads |-> TRUE, files |-> <<ZipEntry("readme.txt", FALSE, TRUE)>>],
     [loads |-> TRUE,
      files |-> <<ZipEntry("photos/", TRUE, TRUE),
                  ZipEntry("John_Smith.PNG", FALSE, TRUE),
                  ZipEntry("broken.gif", FALSE, FALSE),
                  ZipEntry("photos/larry mota.jpeg", FALSE, TRUE)>>]}

(***************************************************************************)
(* StorageService: the card history.                                       *)
(***************************************************************************)
MAX_HISTORY == 20

\* Array.prototype.slice(0, n)
Slice(seq, n) == SubSeq(seq, 1, Min(n, Len(seq)))

\* saveCardToHistory without a card element: the history it publishes.  The
\* two generateId() calls return id1 and id2.
saveCardToHistory(history, playerData, id1, id2) ==
    LET storedCard ==
            [id |-> Or(playerData["id"], JStr(id1)),
             playerData |-> [playerData EXCEPT !["id"] = Or(playerData["id"], JStr(id2))],
             thumbnail |-> ""]
        keep(card) == card.id # storedCard.id
    IN Slice(<<storedCard>> \o SelectSeq(history, keep), MAX_HISTORY)

\* Histories a session can find in localStorage: the ones earlier sessions
\* saved.
StoredPlayers ==
    {[createDefaultPlayer EXCEPT !["id"] = JStr("card-7"), !["name"] = "Ada Lovelace",
                                 !["rating"] = 99, !["manualRating"] = TRUE,
                                 !["stats"] = Stats(70, 71, 72, 73, 74, 75)]}

StoredHistories ==
    {<<>>} \cup {saveCardToHistory(<<>>, p, "1730000000000_a", "1730000000000_b") :
                    p \in StoredPlayers}

\* localStorage items.  getItem returns null for a key that was never set;
\* JSON.stringify followed by JSON.parse returns the fields the model keeps.
NoItem == [set |-> FALSE, value |-> <<>>]

NoText == [set |-> FALSE, value |-> ""]

Item(v) == [set |-> TRUE, value |-> v]

\* The constructor: loadHistory publishes what the history key holds.
loadHistory(storage) ==
    LET stored == storage["fifa_card_history"]
    IN IF stored.set THEN stored.value ELSE <<>>

\* Outcomes of localStorage.setItem in saveHistory: it returns ("stored"), it
\* throws QuotaExceededError and the retry with the reduced history returns
\* ("quota"), or nothing is written ("failed": another error, or the retry
\* throws too).
WriteOutcomes == {"stored", "quota", "failed"}

\* saveHistory on the service s (its storage and its published history).
saveHistory(s, history, w) ==
    LET reducedHistory == Slice(history, MAX_HISTORY \div 2)
    IN CASE w = "stored" ->
                [s EXCEPT !.storage["fifa_card_history"] = Item(history)]
         [] w = "quota" ->
                [storage |-> [s.storage EXCEPT !["fifa_card_history"] = Item(reducedHistory)],
                 history |-> reducedHistory]
         [] OTHER -> s

removeFromHistory(s, id, w) ==
    LET keep(card) == card.id # JStr(id)
        updatedHistory == SelectSeq(s.history, keep)
    IN [saveHistory(s, updatedHistory, w) EXCEPT !.history = updatedHistory]

clearHistory(s, w) == [saveHistory(s, <<>>, w) EXCEPT !.history = <<>>]

\* restoreFromBackup of a file: whether its text parses, and the version and
\* history of the parsed object.  The settings of the backup are not modelled.
restoreFromBackup(s, file, w) ==
    IF ~file.parses \/ ~Truthy(file.version) \/ ~Truthy(file.history)
    THEN s
    ELSE IF file.history.t = "array"
         THEN [saveHistory(s, file.history.a, w) EXCEPT !.history = file.history.a]
         ELSE s

\* migrateCardFormat of an old card whose fields have the types the old
\* format gave them.
migrateCardFormat(oldCard, id) ==
    LET num(a, b) == Or(Or(Prop(oldCard, a), Prop(oldCard, b)), JNum(75)).n
    IN [id |-> Or(Prop(oldCard, "id"), JStr(id)),
        name |-> Or(Prop(oldCard, "name"), JStr("Unknown Player")).s,
        position |-> Or(Prop(oldCard, "position"), JStr("DEV")).s,
        nationality |->
            Or(Or(Prop(oldCard, "country"), Prop(oldCard, "nationality")), JStr("US")).s,
        rating |-> Or(Prop(oldCard, "rating"), JNum(75)).n,
        manualRating |-> FALSE,
        stats |-> Stats(num("pace", "technical"), num("shooting", "leadership"),
                        num("passing", "creativity"), num("dribbling", "reliability"),
                        num("defending", "collaboration"), num("physical", "adaptability")),
        backgroundTheme |-> IF Prop(oldCard, "cardType") = JStr("gold")
                            THEN "gold-classic" ELSE "dark-mode-it",
        profilePhoto |-> Or(Prop(oldCard, "imageUrl"), Prop(oldCard, "profilePhoto")),
        customLogo |-> Undefined]

\* migrateData; the short version item is always written.  generateId
\* returns ids[index] for the card at index.
migrateData(s, now, ids, w) ==
    LET version == s.storage["fifa_card_version"]
        oldData == s.storage["playerCards"]
        migratedCards ==
            [i \in 1..Len(oldData.value) |->
                [id |-> Or(Prop(oldData.value[i], "id"),
                           JStr("migrated_" \o ToString(i - 1) \o "_" \o now)),
                 playerData |-> migrateCardFormat(oldData.value[i], ids[i]),
                 thumbnail |-> ""]]
        saved == saveHistory(s, migratedCards, w)
        done(t) == [t EXCEPT !.storage["fifa_card_version"] = Item("1.0.0")]
    IN IF version.set /\ version.value = "1.0.0"
       THEN s
       ELSE IF oldData.set
            THEN done([saved EXCEPT !.storage["playerCards"] = NoItem])
            ELSE done(s)

(***************************************************************************)
(* Initial state: the services and the component after construction.       *)
(***************************************************************************)
InitForm ==
    [name |-> "", position |-> "DEV", nationality |-> "FR", rating |-> 85,
     technical |-> 75, leadership |-> 75, creativity |-> 75, reliability |-> 75,
     collaboration |-> 75, adaptability |-> 75]

InitCard ==
    /\ currentPlayer = createDefaultPlayer
    /\ cardForm = updateFormFromPlayer(InitForm, createDefaultPlayer)
    /\ published = <<>>
    /\ calls = <<>>
    /\ handler = "init"
    /\ cardHistory \in StoredHistories \ {<<>>}
    /\ localStorage = [fifa_card_history |-> Item(cardHistory),
                       playerCards |-> NoItem,
                       fifa_card_version |-> NoText]
    /\ storageCalls = <<>>

InitBatch ==
    /\ batchCards = <<>>
    /\ batchProgress = Snapshot(0, 0, "idle", "")
    /\ progressBy = "init"
    /\ photoLibrary = <<>>
    /\ pending = [s \in Slots |-> NoCall]
    /\ lastCall = NoLastCall
    /\ started = 0

NoProbe == [fn |-> "none"]

Init == InitCard /\ InitBatch /\ probe = NoProbe

(***************************************************************************)
(* AppComponent actions: one per handler.                                  *)
(***************************************************************************)
\* The state a handler h leaves after its run u.
Commit(h, u) ==
    /\ currentPlayer' = u.player
    /\ cardForm' = u.form
    /\ published' = u.pubs
    /\ calls' = u.args
    /\ handler' = h
    /\ UNCHANGED <<cardHistory, localStorage, storageCalls, batchVars, probe>>

Here == Run(currentPlayer, cardForm)

\* What the user types into the text controls and the number controls.
TextEdits == {<<"name", "Test Pilot">>}

NumberEdits == {<<"rating", 90>>, <<"technical", 60>>, <<"technical", 0>>}

\* The user changes one control of the form; the control emits valueChanges.
FormChange(control, value) ==
    Commit("formChange", PatchValue[<<Here, [k \in {control} |-> value]>>])

\* Stat sets randomizeStats returns.
RandomStats == {Stats(60, 98, 77, 81, 65, 90)}

RandomizeStats(newStats) == Commit("randomizeStats", randomizeStatsHandler(Here, newStats))

RecomputeRating == Commit("recomputeRating", recomputeRating(Here))

ResetStats == Commit("resetStats", resetStats(Here))

ToggleManualRating == Commit("toggleManualRating", toggleManualRating(Here))

\* Template ids the template picker passes, and one that does not exist.
PickedTemplates == {"totw", "neon"}

SelectTemplate(templateId) == Commit("selectTemplate", selectTemplate(Here, templateId))

\* Longest name a card is duplicated from.
MaxNameLen == 12

DuplicateCard ==
    /\ Len(currentPlayer["name"]) <= MaxNameLen
    /\ Commit("duplicateCard", duplicateCard(Here))

LoadBatchCard(i) == Commit("loadBatchCard", loadBatchCard(Here, batchCards[i]))

LoadFromHistory(i) == Commit("loadFromHistory", loadFromHistory(Here, cardHistory[i]))

(***************************************************************************)
(* BatchService actions: the start of an import call and its resumptions.  *)
(***************************************************************************)
LastOf(seq) == seq[Len(seq)]

\* The calls start in the lowest free slot.
FreeSlot(s) == pending[s].kind = "none" /\ \A r \in Slots : r < s => pending[r].kind # "none"

\* importFromCSV / importFromJSON / importPhotoLibrary up to the first await.
StartImport(s, kind) ==
    /\ FreeSlot(s)
    /\ started < MaxCalls
    /\ started' = started + 1
    /\ batchProgress' = Snapshot(0, 0, "processing", startMessage(kind))
    /\ progressBy' = "import"
    /\ pending' = [pending EXCEPT ![s] =
            [NoCall EXCEPT !.kind = kind,
                           !.at = IF kind = "zip" THEN "load" ELSE "text",
                           !.emitted = <<Snapshot(0, 0, "processing",
                                                  startMessage(kind))>>]]
    /\ UNCHANGED <<cardVars, batchCards, photoLibrary, lastCall, probe>>

\* The call in slot s returns: its last publications and its record.
Return(s, input, now, out) ==
    /\ batchProgress' = LastOf(out.emitted)
    /\ progressBy' = "import"
    /\ lastCall' = [kind |-> pending[s].kind, input |-> input, now |-> now,
                    outcome |-> out.outcome,
                    message |-> out.message, result |-> out.result,
                    emitted |-> pending[s].emitted \o out.emitted]
    /\ pending' = [pending EXCEPT ![s] = NoCall]
    /\ UNCHANGED <<cardVars, started, probe>>

\* file.text() resolves in importFromCSV: the rest of the call runs.
FinishCSV(s, runs) ==
    /\ pending[s].kind = "csv"
    /\ \E run \in runs :
        /\ Return(s, run.file, run.now, run.out)
        /\ batchCards' = IF run.out.publishes THEN run.out.result.success ELSE batchCards
    /\ UNCHANGED photoLibrary

\* file.text() resolves in importFromJSON: the rest of the call runs.
FinishJSON(s, runs) ==
    /\ pending[s].kind = "json"
    /\ \E run \in runs :
        /\ Return(s, run.file, run.now, run.out)
        /\ batchCards' = IF run.out.publishes THEN run.out.result.success ELSE batchCards
    /\ UNCHANGED photoLibrary

\* file.text() rejects: the catch block publishes the error and rethrows.
ReadFails(s) ==
    /\ pending[s].at = "text"
    /\ Return(s, [unreadable |-> TRUE], "", Rejected("NotReadableError"))
    /\ UNCHANGED <<batchCards, photoLibrary>>

\* batchCards.map of matchPhotosToPlayers
matchPhotosToPlayers(cards, photos) == [i \in 1..Len(cards) |-> matchCard(cards[i], photos)]

\* importPhotoLibrary returns photoMap; onPhotoZipImport, which awaited it,
\* matches the photos when there are batch cards.
ZipDone(s, zip, photoMap) ==
    LET size == Cardinality(DOMAIN photoMap)
        done == Snapshot(size, size, "completed",
                         "Loaded " \o ToString(size) \o " photos")
    IN /\ Return(s, zip, "", [outcome |-> "resolved", message |-> "", result |-> EmptyResult,
                          emitted |-> <<done>>])
       /\ photoLibrary' = photoMap
       /\ batchCards' = IF Len(batchCards) > 0
                        THEN matchPhotosToPlayers(batchCards, photoMap)
                        ELSE batchCards

ZipProcessing(files, i) ==
    Snapshot(i, Len(files), "processing", "Processing " \o files[i + 1].name \o "...")

\* zip.loadAsync(file) settles: the call fails, completes at once (no image),
\* or publishes the snapshot of its first image and awaits its blob.
ZipLoaded(s, zips) ==
    /\ pending[s].at = "load"
    /\ \E zip \in zips :
        LET imageFiles == imageFilesOf(zip.files)
        IN IF ~zip.loads
           THEN /\ Return(s, zip, "", Rejected("Corrupted zip"))
                /\ UNCHANGED <<batchCards, photoLibrary>>
           ELSE IF Len(imageFiles) = 0
           THEN ZipDone(s, zip, <<>>)
           ELSE /\ batchProgress' = ZipProcessing(imageFiles, 0)
                /\ progressBy' = "import"
                /\ pending' = [pending EXCEPT ![s] =
                        [@ EXCEPT !.at = "blob", !.files = imageFiles, !.i = 0,
                                  !.zip = zip,
                                  !.emitted = Append(@, ZipProcessing(imageFiles, 0))]]
                /\ UNCHANGED <<cardVars, batchCards, photoLibrary, lastCall, started, probe>>

\* blobToBase64 of a readable entry
Base64(entry) == "data:" \o entry.name

\* file.async('blob') and blobToBase64 settle for image i: the photo is added
\* to the map, or the inner catch logs a warning; then the loop goes on to the
\* next image or the call completes.
ZipFileRead(s) ==
    /\ pending[s].at = "blob"
    /\ LET call == pending[s]
           entry == call.files[call.i + 1]
           photoMap == IF entry.readable
                       THEN MapSet(call.photoMap, entry.key, Base64(entry))
                       ELSE call.photoMap
       IN IF call.i + 1 < Len(call.files)
          THEN /\ batchProgress' = ZipProcessing(call.files, call.i + 1)
               /\ progressBy' = "import"
               /\ pending' = [pending EXCEPT ![s] =
                       [@ EXCEPT !.i = call.i + 1, !.photoMap = photoMap,
                                 !.emitted =
                                    Append(@, ZipProcessing(call.files, call.i + 1))]]
               /\ UNCHANGED <<cardVars, batchCards, photoLibrary, lastCall, started, probe>>
          ELSE ZipDone(s, call.zip, photoMap)

clearBatch ==
    /\ batchCards' = <<>>
    /\ photoLibrary' = <<>>
    /\ batchProgress' = Snapshot(0, 0, "idle", "")
    /\ progressBy' = "clearBatch"
    /\ UNCHANGED <<cardVars, pending, lastCall, started, probe>>

(***************************************************************************)
(* The card editor: the handlers of AppComponent, with a JSON import that   *)
(* fills the batch list the cards are loaded from.                         *)
(***************************************************************************)
CardJsonFiles ==
    {[parses |-> TRUE,
      value |-> JArr(<<JObj([name |-> JStr("Mia Wong"), position |-> JStr("QA"),
                             nationality |-> JStr("SG"), rating |-> JNum(91),
                             technical |-> JNum(60)]),
                       JObj([name |-> JStr("Tom Roe"), position |-> JStr("PM"),
                             nationality |-> JStr("NZ"),
                             stats |-> JObj([technical |-> JNum(64)])])>>)]}

CardJsonRuns ==
    {[file |-> f, now |-> n, out |-> importFromJSON(f, n)] :
        f \in CardJsonFiles, n \in NowVals}

\* Largest number of imports while the editor is explored.
MaxCardImports == 1

NextCard ==
    \/ \E e \in TextEdits : FormChange(e[1], e[2])
    \/ \E e \in NumberEdits : FormChange(e[1], e[2])
    \/ \E newStats \in RandomStats : RandomizeStats(newStats)
    \/ RecomputeRating
    \/ ResetStats
    \/ ToggleManualRating
    \/ \E templateId \in PickedTemplates : SelectTemplate(templateId)
    \/ DuplicateCard
    \/ \E i \in 1..Len(batchCards) : LoadBatchCard(i)
    \/ \E i \in 1..Len(cardHistory) : LoadFromHistory(i)
    \/ \E s \in Slots : started < MaxCardImports /\ StartImport(s, "json")
    \/ \E s \in Slots : FinishJSON(s, CardJsonRuns)

SpecCard == Init /\ [][NextCard]_vars

\* The mean of six stats rounded to the nearest integer, halves up: the r
\* with r <= sum/6 + 1/2 < r + 1.
RoundedMean(stats) ==
    CHOOSE r \in 0..100 :
        6 * r - 3 <= SumSeq(StatValues(stats)) /\ SumSeq(StatValues(stats)) < 6 * r + 3

\* The handlers that issue the updatePlayer calls of interest.
RatingHandlers ==
    {"formChange", "randomizeStats", "resetStats", "recomputeRating",
     "toggleManualRating", "loadBatchCard", "loadFromHistory", "duplicateCard"}

\* C1: every player state published by an updatePlayer call of a form edit,
\* randomizeStats, resetStats, recomputeRating, toggleManualRating,
\* loadBatchCard, loadFromHistory or duplicateCard, the states published in the
\* middle of one handler included, has rating = round(mean of its six stats)
\* when its manualRating flag is false.
C1_PublishedRatingIsAggregate ==
    handler \in RatingHandlers =>
        \A i \in 1..Len(published) :
            ~published[i]["manualRating"] =>
                published[i]["rating"] = RoundedMean(published[i]["stats"])

\* C2: a valid form change while the current player's manualRating flag is
\* true (one updatePlayer call with stats and a rating and no manualRating
\* field) leaves the flag true and makes the supplied rating the player's
\* rating.
C2_ManualRatingSurvivesFormChange ==
    [][(/\ handler' = "formChange"
        /\ Len(calls') = 1
        /\ currentPlayer["manualRating"])
       => (/\ "manualRating" \notin DOMAIN calls'[1]
           /\ currentPlayer'["manualRating"]
           /\ currentPlayer'["rating"] = calls'[1]["rating"])]_vars

(***************************************************************************)
(* The batch importer: import calls on the input files, interleaved.       *)
(***************************************************************************)
ImportKinds == {"csv", "json", "zip"}

NextBatch ==
    \/ \E s \in Slots, kind \in ImportKinds : StartImport(s, kind)
    \/ \E s \in Slots : FinishCSV(s, CsvRuns)
    \/ \E s \in Slots : FinishJSON(s, JsonRuns)
    \/ \E s \in Slots : ReadFails(s)
    \/ \E s \in Slots : ZipLoaded(s, ZipFiles)
    \/ \E s \in Slots : ZipFileRead(s)
    \/ clearBatch

SpecBatch == Init /\ [][NextBatch]_vars

(***************************************************************************)
(* The returned import call, read from its input file.                     *)
(***************************************************************************)
\* The last call is a CSV or JSON import whose file could be read.
ReadImport ==
    lastCall.kind \in {"csv", "json"} /\ "unreadable" \notin DOMAIN lastCall.input

\* The non-blank lines of a CSV file.
FileLines(file) == NonBlank(<<file.header>> \o file.rows)

\* The header cells of a CSV file, as the importer compares them.
FileHeaders(file) ==
    IF Len(FileLines(file)) = 0 THEN <<>> ELSE MapHeader(Split(FileLines(file)[1], ","))

\* The top-level structure of the input is valid.
StructureValid(kind, file) ==
    IF kind = "csv"
    THEN LET headers == FileHeaders(file)
         IN \A f \in {"name", "position", "nationality"} :
                \E i \in 1..Len(headers) : headers[i] = f
    ELSE /\ file.parses
         /\ \/ file.value.t = "array"
            \/ /\ file.value.t = "object"
               /\ \E key \in {"cards", "players"} :
                    key \in DOMAIN file.value.o /\ file.value.o[key].t = "array"

\* The data rows of a structurally valid input, in file order.
DataRows(kind, file) ==
    IF kind = "csv" THEN Tail(FileLines(file)) ELSE playersArrayOf(file.value).a

\* Data row j taken on its own: whether parsing it throws, the record parsed
\* from it, and whether the record passes validation.
RowThrows(kind, rows, j) == kind = "json" /\ JsonItemThrows(rows[j])

RowRecord(kind, headers, rows, now, j) ==
    IF kind = "csv"
    THEN parsePlayerDataFromCSV(headers, parseCSVLine(rows[j]), j, now)
    ELSE parsePlayerDataFromJSON(rows[j], j - 1, now)

RowPasses(kind, headers, rows, now, j) ==
    ~RowThrows(kind, rows, j)
    /\ validatePlayerData(RowRecord(kind, headers, rows, now, j)).isValid

PassingRows(kind, headers, rows, now) ==
    {j \in 1..Len(rows) : RowPasses(kind, headers, rows, now, j)}

\* The position of row j among the rows of a set.
Rank(rows, j) == Cardinality({k \in rows : k <= j})

\* C3: a CSV or JSON import of a structurally valid file completes, its
\* accepted list holds exactly the rows that pass validation on their own, each
\* once and in file order, its error list holds exactly the other rows (failed
\* validation or thrown while parsed), each once and in file order, and
\* len(accepted) + len(errors) is the number of data rows.
C3_EveryRowClassifiedOnce ==
    (ReadImport /\ StructureValid(lastCall.kind, lastCall.input)) =>
        LET kind == lastCall.kind
            headers == FileHeaders(lastCall.input)
            rows == DataRows(kind, lastCall.input)
            passing == PassingRows(kind, headers, rows, lastCall.now)
            failing == (1..Len(rows)) \ passing
            result == lastCall.result
        IN /\ lastCall.outcome = "resolved"
           /\ Len(result.success) = Cardinality(passing)
           /\ Len(result.errors) = Cardinality(failing)
           /\ \A j \in passing :
                result.success[Rank(passing, j)]
                    = RowRecord(kind, headers, rows, lastCall.now, j)
           /\ \A j \in failing : result.errors[Rank(failing, j)].row = j
           /\ Len(result.success) + Len(result.errors) = Len(rows)

\* A two-row import that keeps one row and reports the other: a thrown row
\* (a null JSON item) before an accepted one.
C3_NullRowThenAcceptedRow ==
    /\ ReadImport /\ lastCall.kind = "json" /\ lastCall.outcome = "resolved"
    /\ Len(DataRows("json", lastCall.input)) = 2
    /\ RowThrows("json", DataRows("json", lastCall.input), 1)
    /\ Len(lastCall.result.success) = 1
    /\ Len(lastCall.result.errors) = 1

\* C4: a CSV or JSON import of a structurally invalid file (no non-blank
\* line, a header without name, position or nationality, a text that is no
\* JSON, a JSON value without an array of players) is rejected: it returns no
\* result, it publishes nothing but the "reading" snapshot and one last
\* snapshot with status error and current = total = 0, so no row is processed.
C4_InvalidStructureAborts ==
    (ReadImport /\ ~StructureValid(lastCall.kind, lastCall.input)) =>
        /\ lastCall.outcome = "rejected"
        /\ lastCall.result = EmptyResult
        /\ Len(lastCall.emitted) = 2
        /\ lastCall.emitted[1] = Snapshot(0, 0, "processing", startMessage(lastCall.kind))
        /\ lastCall.emitted[2].status = "error"
        /\ lastCall.emitted[2].current = 0
        /\ lastCall.emitted[2].total = 0

\* A CSV import whose header has position and nationality but no name, and a
\* data row, was rejected.
C4_HeaderWithoutNameRejected ==
    /\ ReadImport /\ lastCall.kind = "csv"
    /\ lastCall.input.header = "position,nationality,rating"
    /\ Len(lastCall.input.rows) = 1
    /\ lastCall.outcome = "rejected"
    /\ lastCall.message = "Missing required columns: name"

(***************************************************************************)
(* The batch importer under fair scheduling: the promise an import call    *)
(* awaits (file.text(), zip.loadAsync, the read of a ZIP entry) settles,   *)
(* and the call is resumed.                                               *)
(***************************************************************************)
Resume(s) ==
    \/ FinishCSV(s, CsvRuns)
    \/ FinishJSON(s, JsonRuns)
    \/ ReadFails(s)
    \/ ZipLoaded(s, ZipFiles)
    \/ ZipFileRead(s)

FairBatch == SpecBatch /\ \A s \in Slots : WF_vars(Resume(s))

AllProcessing(snapshots) ==
    \A i \in 1..Len(snapshots) : snapshots[i].status = "processing"

\* The snapshots of a returned call: processing once or more, then one
\* terminal snapshot; the snapshots of a suspended call: processing only.
LifecycleShape ==
    /\ lastCall.kind # "none" =>
        /\ Len(lastCall.emitted) >= 2
        /\ AllProcessing(SubSeq(lastCall.emitted, 1, Len(lastCall.emitted) - 1))
        /\ LastOf(lastCall.emitted).status \in {"completed", "error"}
    /\ \A s \in Slots :
        pending[s].kind # "none" =>
            Len(pending[s].emitted) >= 1 /\ AllProcessing(pending[s].emitted)

\* C5: the snapshots of every import call (CSV, JSON, photo ZIP) are one or
\* more with status processing, then exactly one with status completed or
\* error and nothing after it; every call that has started returns, which is
\* when it publishes its terminal snapshot; and status idle is published only
\* initially and by clearBatch.
C5_ProgressLifecycle ==
    /\ []LifecycleShape
    /\ [](batchProgress.status = "idle" => progressBy \in {"init", "clearBatch"})
    /\ \A s \in Slots : (pending[s].kind # "none") ~> (pending[s].kind = "none")

\* A photo import that went through three images has completed while
\* another import call is still suspended.
C5_ZipCompletedBesidePendingCall ==
    /\ lastCall.kind = "zip"
    /\ Len(lastCall.emitted) = 5
    /\ LastOf(lastCall.emitted).status = "completed"
    /\ \E s \in Slots : pending[s].kind # "none"

\* A step in which a CSV or JSON import call returns its result.
ImportCompletes ==
    /\ \E s \in Slots : pending[s].kind \in {"csv", "json"} /\ pending'[s].kind = "none"
    /\ lastCall'.outcome = "resolved"

\* C6: when a CSV or JSON import completes, its last snapshot, which is the
\* published progress, has status completed and current = total = number of
\* accepted records, and the published batch card list is the accepted list
\* of that call.
C6_CompletedCountsAccepted ==
    [][ImportCompletes =>
        /\ batchProgress' = LastOf(lastCall'.emitted)
        /\ batchProgress'.status = "completed"
        /\ batchProgress'.current = Len(lastCall'.result.success)
        /\ batchProgress'.total = Len(lastCall'.result.success)
        /\ batchCards' = lastCall'.result.success
        /\ Len(batchCards') = batchProgress'.total]_vars

\* A completed import of two rows that accepted one and rejected one is the
\* last call, and its accepted card is the batch list.
C6_OneOfTwoRowsAccepted ==
    /\ ReadImport /\ lastCall.outcome = "resolved"
    /\ Len(lastCall.result.success) = 1
    /\ Len(lastCall.result.errors) = 1
    /\ batchProgress.status = "completed"
    /\ batchProgress.total = 1
    /\ Len(batchCards) = 1

\* The record of an import satisfies the data model.
WellFormed(record) ==
    /\ Len(record.name) \in 1..30
    /\ record.position \in {"DEV", "OPS", "DATA", "PM", "QA", "UX", "SEC", "ARCH"}
    /\ Len(record.nationality) \in 2..3
    /\ record.nationality = ToUpperCase(record.nationality)
    /\ record.rating \in 1..99
    /\ \A k \in StatKeySet : record.stats[k] \in 1..99

\* C7: every record in the accepted list of a CSV or JSON import has a name
\* of 1 to 30 characters, one of the 8 role codes as position, an upper-cased
\* nationality of 2 or 3 characters, and an integer in [1,99] as rating and as
\* each of the six stats.
C7_AcceptedRecordsWellFormed ==
    ReadImport =>
        \A i \in 1..Len(lastCall.result.success) : WellFormed(lastCall.result.success[i])

\* An accepted record whose row had stat cells 0, 150, abc, empty and -5 and a
\* name with a comma in quotes.
C7_OutOfRangeCellsAccepted ==
    /\ ReadImport /\ lastCall.kind = "csv"
    /\ \E i \in 1..Len(lastCall.result.success) :
        /\ lastCall.result.success[i].name = "Doe, Jane"
        /\ lastCall.result.success[i].stats = Stats(1, 99, 75, 75, 1, 99)

\* C8: every record accepted by a CSV or JSON import whose manualRating flag
\* is false has rating = round(mean of its six stats), which are the clamped
\* ones.
C8_AutoRatingIsRoundedMean ==
    ReadImport =>
        \A i \in 1..Len(lastCall.result.success) :
            LET record == lastCall.result.success[i]
            IN ~record.manualRating => record.rating = RoundedMean(record.stats)

\* A CSV row with an empty rating cell was accepted with the rating 86 of its
\* stats 92, 78, 88, 90, 85, 82 (mean 85.83).
C8_EmptyRatingCellAggregated ==
    /\ ReadImport /\ lastCall.kind = "csv"
    /\ \E i \in 1..Len(lastCall.result.success) :
        /\ lastCall.result.success[i].name = "Sarah Chen"
        /\ ~lastCall.result.success[i].manualRating
        /\ lastCall.result.success[i].stats = Stats(92, 78, 88, 90, 85, 82)
        /\ lastCall.result.success[i].rating = 86

\* The rating a row supplies: whether there is one (CSV: a non-empty rating
\* cell; JSON: a rating field), and its number when it is one.
SuppliedRating(kind, headers, row) ==
    IF kind = "csv"
    THEN LET cell == getValue(headers, parseCSVLine(row), "rating")
         IN [given |-> cell # "", numeric |-> ~ParseIntStr(cell).nan,
             val |-> ParseIntStr(cell).val]
    ELSE IF row.t = "object" /\ "rating" \in DOMAIN row.o
    THEN [given |-> TRUE, numeric |-> row.o["rating"].t = "number",
          val |-> IF row.o["rating"].t = "number" THEN row.o["rating"].n ELSE 0]
    ELSE [given |-> FALSE, numeric |-> FALSE, val |-> 0]

\* C9: in every record a CSV or JSON import accepts, manualRating is true
\* exactly when the row supplied a rating, and the rating of a record whose
\* row supplied a number is that number clamped to [1,99].
C9_ManualFlagIffRatingSupplied ==
    (ReadImport /\ StructureValid(lastCall.kind, lastCall.input)) =>
        LET kind == lastCall.kind
            headers == FileHeaders(lastCall.input)
            rows == DataRows(kind, lastCall.input)
            passing == PassingRows(kind, headers, rows, lastCall.now)
        IN \A j \in passing :
            LET record == lastCall.result.success[Rank(passing, j)]
                supplied == SuppliedRating(kind, headers, rows[j])
            IN /\ record.manualRating = supplied.given
               /\ (supplied.given /\ supplied.numeric) =>
                    record.rating = Max(1, Min(99, supplied.val))

(***************************************************************************)
(* calculateOverallRating on its own: a stat set goes in, its rating comes *)
(* out.                                                                    *)
(***************************************************************************)
\* Five stats beside the first one: all low, all high, steps in between, and
\* the README example.
RatingTails ==
    {<<1, 1, 1, 1, 1>>, <<20, 20, 20, 20, 20>>, <<40, 40, 40, 40, 40>>,
     <<60, 60, 60, 60, 60>>, <<80, 80, 80, 80, 80>>, <<99, 99, 99, 99, 99>>,
     <<75, 85, 70, 90, 80>>}

RatingInputs ==
    {Stats(t, tail[1], tail[2], tail[3], tail[4], tail[5]) :
        t \in 1..99, tail \in RatingTails}

InitRating ==
    /\ InitCard
    /\ InitBatch
    /\ probe \in {[fn |-> "calculateOverallRating", input |-> stats, done |-> FALSE,
                   out |-> 0] : stats \in RatingInputs}

CalculateOverallRating ==
    /\ probe.fn = "calculateOverallRating"
    /\ ~probe.done
    /\ probe' = [probe EXCEPT !.done = TRUE, !.out = calculateOverallRating(probe.input)]
    /\ UNCHANGED <<cardVars, batchVars>>

NextRating == CalculateOverallRating

SpecRating == InitRating /\ [][NextRating]_vars

\* C10: for six stats in [1,99], calculateOverallRating returns their mean
\* rounded to the nearest integer, halves up, the result is in [1,99], and
\* 80, 75, 85, 70, 90, 80 gives 80.
C10_RatingIsRoundedMean ==
    probe.done =>
        /\ probe.out = RoundedMean(probe.input)
        /\ probe.out \in 1..99
        /\ probe.input = Stats(80, 75, 85, 70, 90, 80) => probe.out = 80

\* A stat set whose mean ends in one half (sum 483, mean 80.5) was rated 81.
C10_HalfRoundedUp ==
    /\ probe.done
    /\ probe.input = Stats(83, 75, 85, 70, 90, 80)
    /\ probe.out = 81

(***************************************************************************)
(* CardService.randomizeStats and its seeded generator.  A value of the    *)
(* generator, (hash - 1) / 2147483646, is represented by its numerator     *)
(* hash - 1; a value of Math.random by a numerator over the same           *)
(* denominator.  A stat is a record [nan, val] as parseInt results are.    *)
(***************************************************************************)
\* String.prototype.charCodeAt, for the letters, the digits and the
\* punctuation of the seeds (ASCII).
charCodeAt(s, i) ==
    LET c == Char(s, i)
    IN CASE c \in DigitChars   -> 47 + IndexOfChar(Digits, c)
         [] c \in UpperLetters -> 64 + IndexOfChar(UpperAlphabet, c)
         [] c \in LowerLetters -> 96 + IndexOfChar(LowerAlphabet, c)
         [] c = " " -> 32
         [] c = "(" -> 40
         [] c = ")" -> 41
         [] c = "-" -> 45
         [] c = "." -> 46
         [] c = "_" -> 95

\* hash = ((hash << 5) - hash) + char; hash = hash & hash.  The 32-bit
\* pattern of hash is kept as its two 16-bit halves: the shift drops the bits
\* that leave the 32 bits, and the final "&" keeps the low 32 bits of the sum.
HashStep(h, char) ==
    LET sl   == h.lo * 32
        shLo == sl % 65536
        shHi == (h.hi * 32 + sl \div 65536) % 65536
        d    == shLo - h.lo + char
    IN [lo |-> d % 65536, hi |-> (shHi - h.hi + d \div 65536) % 65536]

\* The signed 32-bit integer of a bit pattern.
ToInt32(h) ==
    IF h.hi >= 32768 THEN (h.hi - 65536) * 65536 + h.lo ELSE h.hi * 65536 + h.lo

\* The loop over the characters seed[lo..hi], entered with the hash h: the
\* loop over the first half of the range, then the loop over the second half
\* entered with the hash the first one ends with.  (A function is applied to
\* the value of its argument, so the hash is computed at every character.)
HashFrom[a \in STRING \X Nat \X Nat \X Any] ==
    LET seed == a[1]
        lo == a[2]
        hi == a[3]
        mid == (lo + hi) \div 2
    IN IF lo > hi THEN a[4]
       ELSE IF lo = hi THEN HashStep(a[4], charCodeAt(seed, lo))
       ELSE HashFrom[<<seed, mid + 1, hi, HashFrom[<<seed, lo, mid, a[4]>>]>>]

\* seededRandom(seed): the hash the returned closure starts from.
seededRandom(seed) == ToInt32(HashFrom[<<seed, 1, Len(seed), [hi |-> 0, lo |-> 0]>>])

Modulus == 2147483647
Multiplier == 16807

\* a * 16807 % 2147483647 for 0 <= a < 2147483647, computed within 32 bits
\* (2147483647 = 16807 * 127773 + 2836).
MulMod(a) ==
    LET t == Multiplier * (a % 127773) - 2836 * (a \div 127773)
    IN IF t < 0 THEN t + Modulus ELSE t

\* hash = hash * 16807 % 2147483647.  The product is exact in a double, and
\* the remainder of JavaScript has the sign of the dividend.
NextHash(hash) ==
    LET magnitude == IF hash = (0 - Modulus) - 1 THEN 1
                     ELSE (IF hash < 0 THEN 0 - hash ELSE hash) % Modulus
    IN IF hash < 0 THEN 0 - MulMod(magnitude) ELSE MulMod(magnitude)

\* The hashes after each of the next n calls of the closure.
\* (for a = <<hash, n>>: the first half of the calls, then the others from
\* the hash the first half leaves.)
HashStates[a \in Int \X Nat] ==
    IF a[2] = 0 THEN <<>>
    ELSE IF a[2] = 1 THEN <<NextHash(a[1])>>
    ELSE LET first == HashStates[<<a[1], a[2] \div 2>>]
         IN first \o HashStates[<<first[Len(first)], a[2] - a[2] \div 2>>]

Num(v) == [nan |-> FALSE, val |-> v]

\* 1000 * 8 * Math.sqrt(-2 * Math.log(u1)), tabulated at the middles of 32
\* equal intervals of (0, 1).
RadiusTable ==
    <<23072, 19792, 18065, 16830, 15846, 15014, 14284, 13627, 13026, 12468, 11943,
      11445, 10969, 10510, 10066, 9633, 9208, 8789, 8375, 7962, 7550, 7135, 6714,
      6286, 5847, 5391, 4913, 4404, 3851, 3227, 2479, 1420>>

\* 1000 * Math.cos(2 * Math.PI * u2), tabulated the same way.
CosTable ==
    <<995, 957, 882, 773, 634, 471, 290, 98, -98, -290, -471, -634, -773, -882,
      -957, -995, -995, -957, -882, -773, -634, -471, -290, -98, 98, 290, 471,
      634, 773, 882, 957, 995>>

\* The interval of a numerator (the cosine is even).
TableIndex(n) == (IF n < 0 THEN 0 - n ELSE n) \div 67108864 + 1

\* generateStat for u1 = n1 / 2147483646 and u2 = n2 / 2147483646.
\* Math.log of a negative number is NaN, and NaN goes through Math.sqrt,
\* Math.round, Math.min and Math.max.  Math.log(0) is -Infinity: z0 is then
\* an infinity with the sign of the cosine, which the clamp takes to a bound.
generateStat(n1, n2) ==
    IF n1 < 0 THEN NaN
    ELSE IF n1 = 0 THEN (IF CosTable[TableIndex(n2)] > 0 THEN Num(98) ELSE Num(60))
    ELSE LET scaled == RadiusTable[TableIndex(n1)] * CosTable[TableIndex(n2)]
             value  == MathRound(scaled, 1000000) + 78
         IN Num(Max(60, Min(98, value)))

\* randomizeStats(seed): the generator is seeded when seed is truthy (not
\* empty), and is Math.random otherwise; random is then what Math.random
\* returns to its twelve calls.
randomizeStats(seed, random) ==
    LET seeded == seed # ""
        states == IF seeded THEN HashStates[<<seededRandom(seed), 2 * Len(StatKeys)>>] ELSE <<>>
        us     == IF seeded THEN [i \in 1..Len(states) |-> states[i] - 1] ELSE random
    IN [seeded |-> seeded,
        hash   |-> IF seeded THEN seededRandom(seed) ELSE 0,
        states |-> states,
        us     |-> us,
        stats  |-> [k \in StatKeySet |->
                      LET i == CHOOSE j \in 1..Len(StatKeys) : StatKeys[j] = k
                      IN generateStat(us[2 * i - 1], us[2 * i])]]

\* Seeds: the empty string, seeds of the application (a name followed by
\* Date.now()), and seeds whose hash is 0, 1, -2147483647, or reaches 1.
SeedPool ==
    {"", "ab", "Ada", "Larry Mota1730000000000", "Tom Roe1730000000000",
     "Ada Lovelace", "f5a5a608", "bmgkAEt", "GycxgA", "daMqvpc", "cxmaDxl"}

\* What Math.random returns to the twelve calls of one randomizeStats().
MathRandomStreams ==
    {[i \in 1..12 |-> 1073741823],
     [i \in 1..12 |-> IF i % 2 = 1 THEN 67108864 ELSE 1006632960],
     [i \in 1..12 |-> IF i = 1 THEN 0 ELSE 134217728 * i]}

\* Largest number of randomizeStats calls in one behaviour.
MaxRandomCalls == 2

InitRandom ==
    /\ InitCard
    /\ InitBatch
    /\ probe = [fn |-> "randomizeStats", results |-> <<>>]

\* One call of CardService.randomizeStats(seed).
RandomizeStatsCall ==
    /\ probe.fn = "randomizeStats"
    /\ Len(probe.results) < MaxRandomCalls
    /\ \E seed \in SeedPool :
         \E random \in (IF seed = "" THEN MathRandomStreams ELSE {<<>>}) :
            probe' = [probe EXCEPT !.results =
                        Append(@, [seed |-> seed, out |-> randomizeStats(seed, random)])]
    /\ UNCHANGED <<cardVars, batchVars>>

NextRandom == RandomizeStatsCall

SpecRandom == InitRandom /\ [][NextRandom]_vars

\* C11: two calls of randomizeStats with the same seed string, the empty
\* string included, return the same six stats.
C11_SameSeedSameStats ==
    probe.fn = "randomizeStats" =>
        \A i, j \in DOMAIN probe.results :
            probe.results[i].seed = probe.results[j].seed
                => probe.results[i].out.stats = probe.results[j].out.stats

\* C12: every stat randomizeStats returns is an integer in [60,98].
C12_StatsWithinRange ==
    probe.fn = "randomizeStats" =>
        \A i \in DOMAIN probe.results : \A k \in StatKeySet :
            /\ ~probe.results[i].out.stats[k].nan
            /\ probe.results[i].out.stats[k].val \in 60..98

\* C13: the hash of the seeded generator is in 1..2147483646 after every
\* step, so that every value is in [0,1) and every u1 is greater than 0.
C13_GeneratorStateInRange ==
    probe.fn = "randomizeStats" =>
        \A i \in DOMAIN probe.results :
            LET out == probe.results[i].out
            IN out.seeded =>
                /\ \A n \in DOMAIN out.states : out.states[n] \in 1..(Modulus - 1)
                /\ \A n \in DOMAIN out.us : out.us[n] >= 0 /\ out.us[n] < Modulus - 1
                /\ \A s \in 1..Len(StatKeys) : out.us[2 * s - 1] > 0

(***************************************************************************)
(* CardService.sanitizeInput on its own.                                   *)
(***************************************************************************)
SanitizeTexts ==
    {"", "a", "ab", "abc", "abcd", "abcdefgh", "  padded  ", "Test Pilot", "dummy",
     "faketest", "A fake TEST of a dummy", "Maximilian Alexander von Hohenberg"}

SanitizeLengths == {0, 1, 2, 3, 4, 5, 8, 30, 50}

InitSanitize ==
    /\ InitCard
    /\ InitBatch
    /\ probe \in {[fn |-> "sanitizeInput", input |-> text, maxLength |-> n,
                   done |-> FALSE, out |-> ""] :
                      text \in SanitizeTexts, n \in SanitizeLengths}

\* One call of CardService.sanitizeInput(input, maxLength).
SanitizeInput ==
    /\ probe.fn = "sanitizeInput"
    /\ ~probe.done
    /\ probe' = [probe EXCEPT !.done = TRUE,
                              !.out = sanitizeInput(probe.input, probe.maxLength)]
    /\ UNCHANGED <<cardVars, batchVars>>

NextSanitize == SanitizeInput

SpecSanitize == InitSanitize /\ [][NextSanitize]_vars

\* C14: for every text and every maxLength >= 0 (0, 1 and 2 included) the
\* string sanitizeInput returns has at most maxLength characters.
C14_SanitizedWithinMaxLength ==
    (probe.fn = "sanitizeInput" /\ probe.done) => Len(probe.out) <= probe.maxLength

(***************************************************************************)
(* Validation of the parsed rows of an import.                             *)
(***************************************************************************)
\* The data rows of the returned import that were parsed into a record.
ParsedRows(kind, rows) == {j \in 1..Len(rows) : ~RowThrows(kind, rows, j)}

\* The rows that have an entry in the error list, in the warning list.
RowsOf(entries) == {entries[e].row : e \in 1..Len(entries)}

\* The entry of row j in a list of error or warning entries.
EntryOf(entries, j) == entries[CHOOSE e \in 1..Len(entries) : entries[e].row = j]

\* The messages of seq whose condition holds, in order.
RECURSIVE MessagesMet(_)
MessagesMet(checks) ==
    IF Len(checks) = 0 THEN <<>>
    ELSE (IF checks[1][1] THEN <<checks[1][2]>> ELSE <<>>) \o MessagesMet(Tail(checks))

\* The conditions that block the acceptance of a parsed record.
BlockingMessages(rec) ==
    MessagesMet(<< <<rec.name = "", "Name is required">>,
                   <<rec.position = "", "Position is required">>,
                   <<Len(rec.nationality) < 2, "Valid nationality code is required">> >>)

\* C15: a parsed row of a batch import is rejected (it has an entry in the
\* error list and no record in the accepted list) exactly when its name is
\* empty after sanitization, its position is missing, or its nationality has
\* fewer than 2 characters, and the message of its error entry joins the
\* messages of all failing checks.  The position of a parsed row is one of
\* the eight codes (validatePosition falls back to DEV), so it is never missing.
C15_RejectedIffBlockingCheck ==
    (ReadImport /\ StructureValid(lastCall.kind, lastCall.input)) =>
        LET kind == lastCall.kind
            headers == FileHeaders(lastCall.input)
            rows == DataRows(kind, lastCall.input)
            result == lastCall.result
            rejected == RowsOf(result.errors)
        IN \A j \in ParsedRows(kind, rows) :
              LET rec == RowRecord(kind, headers, rows, lastCall.now, j)
                  failing == BlockingMessages(rec)
                  accepted == \E a \in 1..Len(result.success) : result.success[a] = rec
              IN /\ rec.position \in validPositions
                 /\ j \in rejected <=> Len(failing) > 0
                 /\ j \in rejected <=> ~accepted
                 /\ j \in rejected =>
                        EntryOf(result.errors, j).message = Join(failing, ", ")

\* A CSV row of empty cells (no name, no position, no nationality) was
\* rejected with the messages of its two failing checks.
C15_TwoFailingChecksJoined ==
    /\ ReadImport /\ lastCall.kind = "csv" /\ lastCall.outcome = "resolved"
    /\ lastCall.result.success = <<>>
    /\ \E e \in 1..Len(lastCall.result.errors) :
          lastCall.result.errors[e].message
              = "Name is required, Valid nationality code is required"

\* The conditions of a parsed record that are warned about.
WarningMessages(rec) ==
    MessagesMet(<< <<Len(rec.name) > 25, "Name is quite long and may not display well">>,
                   <<rec.rating < 50, "Rating seems unusually low">>,
                   <<rec.rating > 95, "Rating seems unusually high">> >>)

\* C16: a parsed row with no error condition is accepted even when it has
\* warnings; it is in the warning list exactly when one of the three
\* conditions is met (name longer than 25 characters, rating below 50, rating
\* above 95), with one entry whose message joins one message per condition
\* met; a row with a name of 26 to 30 characters and a rating in [50,95] has
\* exactly the message about the name; a rejected row is never in the warning
\* list.
C16_WarningsDoNotBlockAcceptance ==
    (ReadImport /\ StructureValid(lastCall.kind, lastCall.input)) =>
        LET kind == lastCall.kind
            headers == FileHeaders(lastCall.input)
            rows == DataRows(kind, lastCall.input)
            result == lastCall.result
            warned == RowsOf(result.warnings)
        IN /\ warned \cap RowsOf(result.errors) = {}
           /\ Cardinality(warned) = Len(result.warnings)
           /\ \A j \in ParsedRows(kind, rows) :
                LET rec == RowRecord(kind, headers, rows, lastCall.now, j)
                    met == WarningMessages(rec)
                IN Len(BlockingMessages(rec)) = 0 =>
                     /\ \E a \in 1..Len(result.success) : result.success[a] = rec
                     /\ j \in warned <=> Len(met) > 0
                     /\ j \in warned =>
                          /\ EntryOf(result.warnings, j).message = Join(met, ", ")
                          /\ EntryOf(result.warnings, j).data = rec
                     /\ (Len(rec.name) \in 26..30 /\ rec.rating \in 50..95) =>
                          /\ j \in warned
                          /\ EntryOf(result.warnings, j).message
                                = "Name is quite long and may not display well"

\* A row with a name of 26 characters and an aggregated rating of 75 was
\* accepted with the one warning about its name.
C16_LongNameAcceptedWithOneWarning ==
    /\ ReadImport /\ lastCall.kind = "csv" /\ lastCall.outcome = "resolved"
    /\ Len(lastCall.result.success) = 1
    /\ lastCall.result.success[1].name = "Alexandria Montgomery-Hale"
    /\ lastCall.result.success[1].rating = 75
    /\ lastCall.result.errors = <<>>
    /\ Len(lastCall.result.warnings) = 1
    /\ lastCall.result.warnings[1].message = "Name is quite long and may not display well"

(***************************************************************************)
(* Themes of imported rows.                                                *)
(***************************************************************************)
\* The themes the claim enumerates (CardTheme without custom-gradient).
EnumeratedThemes ==
    {"gold-classic", "dark-mode-it", "silver-modern", "bronze-vintage", "totw"}

\* The theme a data row names, as the parser hands it to validateTheme.
NamedTheme(kind, headers, rows, j) ==
    IF kind = "csv"
    THEN JStr(getValue(headers, parseCSVLine(rows[j]), "theme"))
    ELSE Or(Prop(rows[j], "theme"), Prop(rows[j], "backgroundTheme"))

\* C17: validateTheme returns each theme of the enumeration (gold-classic,
\* dark-mode-it, silver-modern, bronze-vintage, totw) unchanged and
\* gold-classic for any other input, so a parsed row that names an enumerated
\* theme keeps it, and validateTheme of the theme of a parsed row is that theme.
C17_EnumeratedThemeKept ==
    (ReadImport /\ StructureValid(lastCall.kind, lastCall.input)) =>
        LET kind == lastCall.kind
            headers == FileHeaders(lastCall.input)
            rows == DataRows(kind, lastCall.input)
        IN \A j \in ParsedRows(kind, rows) :
              LET named == NamedTheme(kind, headers, rows, j)
                  kept == RowRecord(kind, headers, rows, lastCall.now, j).backgroundTheme
              IN /\ kept = IF named.t = "string" /\ named.s \in EnumeratedThemes
                           THEN named.s ELSE "gold-classic"
                 /\ validateTheme(JStr(kept)) = kept

(***************************************************************************)
(* The CSV template, imported.                                             *)
(***************************************************************************)
\* C18: the import of the text generateCSVTemplate returns accepts its three
\* rows in order, with no error and no warning: row 1 has manualRating true
\* and rating 85, rows 2 and 3 have manualRating false and the rounded mean of
\* their stats as rating (86 and 84).
C18_TemplateImportsCleanly ==
    (lastCall.kind = "csv" /\ "unreadable" \notin DOMAIN lastCall.input
     /\ FileText(lastCall.input) = generateCSVTemplate) =>
        LET accepted == lastCall.result.success
        IN /\ lastCall.outcome = "resolved"
           /\ lastCall.result.errors = <<>>
           /\ lastCall.result.warnings = <<>>
           /\ Len(accepted) = 3
           /\ [i \in 1..3 |-> accepted[i].name] = <<"Larry Mota", "Sarah Chen", "Mike Johnson">>
           /\ [i \in 1..3 |-> accepted[i].manualRating] = <<TRUE, FALSE, FALSE>>
           /\ [i \in 1..3 |-> accepted[i].rating] = <<85, 86, 84>>
           /\ \A i \in 2..3 : accepted[i].rating = RoundedMean(accepted[i].stats)
           /\ accepted[1].stats = Stats(88, 82, 90, 85, 83, 87)

\* The template was imported and its three rows are the batch cards.
C18_TemplateImported ==
    /\ lastCall.kind = "csv" /\ "unreadable" \notin DOMAIN lastCall.input
    /\ FileText(lastCall.input) = generateCSVTemplate
    /\ Len(batchCards) = 3
    /\ batchCards = lastCall.result.success

(***************************************************************************)
(* BatchService as a service: the import calls, clearBatch, and            *)
(* matchPhotosToPlayers called on its own.                                 *)
(***************************************************************************)
\* One call of BatchService.matchPhotosToPlayers(); the record of the call
\* keeps the cards and the photos it read.
MatchPhotosToPlayers ==
    /\ batchCards' = matchPhotosToPlayers(batchCards, photoLibrary)
    /\ lastCall' = [NoLastCall EXCEPT !.kind = "match",
                                      !.input = [cards |-> batchCards,
                                                 photos |-> photoLibrary]]
    /\ UNCHANGED <<cardVars, batchProgress, progressBy, photoLibrary, pending, started,
                   probe>>

NextService == NextBatch \/ MatchPhotosToPlayers

SpecService == Init /\ [][NextService]_vars

\* A name in lower case with every run of white space replaced by one
\* underscore, on s[lo..hi]: a character that is no white space is kept, and
\* the first white space of a run becomes the underscore.
RECURSIVE CollapseWhiteSpace(_, _, _)
CollapseWhiteSpace(s, lo, hi) ==
    IF lo > hi THEN ""
    ELSE IF lo < hi
    THEN CollapseWhiteSpace(s, lo, (lo + hi) \div 2)
         \o CollapseWhiteSpace(s, (lo + hi) \div 2 + 1, hi)
    ELSE IF Char(s, lo) \notin WhiteSpace THEN Char(s, lo)
    ELSE IF lo > 1 /\ Char(s, lo - 1) \in WhiteSpace THEN ""
    ELSE "_"

NormalizedName(name) ==
    LET lower == ToLowerCase(name)
    IN CollapseWhiteSpace(lower, 1, Len(lower))

\* A batch card without photo whose normalized name is a key of the photos.
Matchable(card, photos) ==
    ~Truthy(card["profilePhoto"]) /\ NormalizedName(card["name"]) \in DOMAIN photos

\* C19: matchPhotosToPlayers gives every batch card that had no photo and
\* whose key (its name in lower case, each run of white space replaced by one
\* underscore) is a key of the photo library the image of that key; it leaves
\* every other card, the number and the order of the cards, and the photo
\* library unchanged.
C19_MatchAttachesLibraryPhotos ==
    [][(/\ lastCall'.kind = "match"
        /\ lastCall.kind = "match" => lastCall'.input # lastCall.input) =>
          /\ photoLibrary' = photoLibrary
          /\ Len(batchCards') = Len(batchCards)
          /\ \A i \in 1..Len(batchCards) :
                batchCards'[i] =
                    IF Matchable(batchCards[i], photoLibrary)
                    THEN [batchCards[i] EXCEPT !["profilePhoto"] =
                            JStr(photoLibrary[NormalizedName(batchCards[i]["name"])])]
                    ELSE batchCards[i]]_vars

\* The library was loaded before the cards, and the call gave "John  Smith"
\* the image of key john_smith and left the card that had a photo alone.
C19_JohnSmithMatched ==
    /\ lastCall.kind = "match"
    /\ \E i \in 1..Len(batchCards) :
          /\ batchCards[i]["name"] = "John  Smith"
          /\ ~Truthy(lastCall.input.cards[i]["profilePhoto"])
          /\ "john_smith" \in DOMAIN photoLibrary
          /\ batchCards[i]["profilePhoto"] = JStr(photoLibrary["john_smith"])
    /\ \E i \in 1..Len(batchCards) :
          /\ Truthy(lastCall.input.cards[i]["profilePhoto"])
          /\ batchCards[i] = lastCall.input.cards[i]

\* C20: whatever the order of the two uploads, once a data import and a
\* photo ZIP import have both completed, no batch card without photo has a
\* normalized name that is a key of the photo library: every such card got
\* its photo.  (The batch cards and the photo library are only published by
\* completed imports.)
C20_PhotosMatchedInEitherOrder ==
    \A i \in 1..Len(batchCards) : ~Matchable(batchCards[i], photoLibrary)

(***************************************************************************)
(* StorageService: the history calls of a session.                         *)
(***************************************************************************)
\* StorageService calls in one session.
MaxStorageCalls == 2

Service == [storage |-> localStorage, history |-> cardHistory]

\* A call that leaves the service as s.
StorageCall(call, s) ==
    /\ Len(storageCalls) < MaxStorageCalls
    /\ localStorage' = s.storage
    /\ cardHistory' = s.history
    /\ storageCalls' = Append(storageCalls, call)
    /\ UNCHANGED <<currentPlayer, cardForm, published, calls, handler, batchVars, probe>>

\* Math.random().toString(36).substr(2, 9) of generateId
RandomSuffixes == {"k3x9q2m1z", "p0d8w7c5r"}

\* Date.now() at the call: later calls see later times.
NowAt(n) == "173000000000" \o ToString(n)

\* exportPNG saves the current card once the image is made.
SaveCardToHistory(r1, r2, w) ==
    LET now == NowAt(Len(storageCalls))
        updatedHistory ==
            saveCardToHistory(cardHistory, currentPlayer, now \o "_" \o r1, now \o "_" \o r2)
    IN StorageCall([op |-> "saveCardToHistory", write |-> w],
                   [saveHistory(Service, updatedHistory, w) EXCEPT !.history = updatedHistory])

\* The history panel shows a remove button per entry: the first and the last
\* are pressed.
Picks == {1, Len(cardHistory)} \cap (1..Len(cardHistory))

RemoveFromHistory(id, w) ==
    StorageCall([op |-> "removeFromHistory", write |-> w], removeFromHistory(Service, id, w))

ClearHistory(w) ==
    StorageCall([op |-> "clearHistory", write |-> w], clearHistory(Service, w))

\* Stored cards of other sessions, n of them.
CardsOf(prefix, n) ==
    [i \in 1..n |->
        [id |-> JStr(prefix \o ToString(i)),
         playerData |-> [createDefaultPlayer EXCEPT !["id"] = JStr(prefix \o ToString(i)),
                                                    !["name"] = "Player " \o ToString(i)],
         thumbnail |-> ""]]

BackupFile(parses, version, history) ==
    [parses |-> parses, version |-> version, history |-> history]

\* Backup files the user picks: backups of short and long histories, a file
\* without a version, a file whose history is no array, and a file that is
\* no JSON.
BackupFiles ==
    {BackupFile(TRUE, JStr("1.0.0"), JArr(CardsOf("b", 2))),
     BackupFile(TRUE, JStr("1.0.0"), JArr(CardsOf("b", MAX_HISTORY + 1))),
     BackupFile(TRUE, Undefined, JArr(CardsOf("b", 1))),
     BackupFile(TRUE, JStr("1.0.0"), JStr("none")),
     BackupFile(FALSE, Undefined, Undefined)}

RestoreFromBackup(file, w) ==
    StorageCall([op |-> "restoreFromBackup", write |-> w], restoreFromBackup(Service, file, w))

MigrateData(r, w) ==
    LET now == NowAt(Len(storageCalls))
    IN StorageCall([op |-> "migrateData", write |-> w],
                   migrateData(Service, now, [i \in 1..MaxRows |-> now \o "_" \o r], w))

\* Cards in the format of the first release.
OldCards ==
    <<JObj([id |-> JStr("old-1"), name |-> JStr("Old Timer"), pace |-> JNum(80),
            cardType |-> JStr("gold")]),
      JObj([name |-> JStr("No Id"), country |-> JStr("DE"), leadership |-> JNum(64)])>>

\* What a session finds in localStorage: nothing, the histories earlier
\* sessions saved, or the cards of the first release.
SessionStorages ==
    {[fifa_card_history |-> Item(h), playerCards |-> NoItem,
      fifa_card_version |-> Item("1.0.0")] :
        h \in (StoredHistories \ {<<>>}) \cup {CardsOf("h", 12)}}
    \cup {[fifa_card_history |-> NoItem, playerCards |-> NoItem,
           fifa_card_version |-> NoText],
          [fifa_card_history |-> NoItem, playerCards |-> Item(OldCards),
           fifa_card_version |-> NoText]}

InitHistory ==
    /\ localStorage \in SessionStorages
    /\ cardHistory = loadHistory(localStorage)
    /\ storageCalls = <<>>
    /\ currentPlayer = createDefaultPlayer
    /\ cardForm = updateFormFromPlayer(InitForm, createDefaultPlayer)
    /\ published = <<>>
    /\ calls = <<>>
    /\ handler = "init"
    /\ InitBatch
    /\ probe = NoProbe

NextHistory ==
    \/ \E r1, r2 \in RandomSuffixes, w \in WriteOutcomes : SaveCardToHistory(r1, r2, w)
    \/ \E i \in Picks, w \in WriteOutcomes : RemoveFromHistory(cardHistory[i].id.s, w)
    \/ \E w \in WriteOutcomes : ClearHistory(w)
    \/ \E file \in BackupFiles, w \in WriteOutcomes : RestoreFromBackup(file, w)
    \/ \E r \in RandomSuffixes, w \in WriteOutcomes : MigrateData(r, w)
    \/ DuplicateCard
    \/ \E i \in Picks : LoadFromHistory(i)

SpecHistory == InitHistory /\ [][NextHistory]_vars

\* C21: the published card history never holds more than MAX_HISTORY cards,
\* after construction and after every history call.
C21_HistoryAtMostTwenty == Len(cardHistory) <= MAX_HISTORY

(***************************************************************************)
(* Row indices of the import result.                                       *)
(***************************************************************************)
\* The lines of a CSV file as the user wrote them, blank ones included.
OriginalLines(file) == Split(FileText(file), "\n")

\* The position of data row j in the original input: for a CSV file the
\* number of lines from the header line to the line of the row, for a JSON
\* file the array index plus one.
OriginalPosition(kind, file, j) ==
    IF kind = "csv"
    THEN LET orig == OriginalLines(file)
             written == {i \in 1..Len(orig) : Trim(orig[i]) # ""}
             header == CHOOSE h \in written : \A i \in written : h <= i
             line == CHOOSE i \in written : Rank(written, i) = j + 1
         IN line - header
    ELSE j

PresentStatSource(jsonItem, k) ==
    LET nested == Prop(jsonItem, "stats")
    IN IF k \in DOMAIN jsonItem.o THEN jsonItem.o[k]
       ELSE IF nested.t = "object" /\ k \in DOMAIN nested.o THEN nested.o[k]
       ELSE JNum(75)

\* C23: every stat of a record accepted by a JSON import is the clamped
\* value of the item's top-level key when the key is present (also when its
\* value is 0), otherwise of the key of the nested stats object, otherwise 75.
C23_TopLevelStatTakesPrecedence ==
    (ReadImport /\ lastCall.kind = "json" /\ StructureValid("json", lastCall.input)) =>
        LET rows == DataRows("json", lastCall.input)
            passing == PassingRows("json", <<>>, rows, lastCall.now)
        IN \A j \in passing : \A k \in StatKeySet :
              /\ Len(lastCall.result.success) >= Rank(passing, j)
              /\ lastCall.result.success[Rank(passing, j)].stats[k]
                    = clampStat(PresentStatSource(rows[j], k))

(***************************************************************************)
(* Suspension points of the importers.                                     *)
(***************************************************************************)
\* C24: a call that has started its rows or entries runs on to its terminal
\* snapshot without yielding: whenever such a call publishes its next
\* snapshot, the progress sink still holds the snapshot the same call
\* published last, so no snapshot of another call (a processing one or a
\* terminal one) lies between two snapshots of its rows or entries.
C24_RowsRunWithoutYielding ==
    [][\A s \in Slots :
          (pending[s].at = "blob" /\ pending'[s] # pending[s]) =>
              batchProgress = LastOf(pending[s].emitted)]_vars

(***************************************************************************)
(* The id of the current player.                                           *)
(***************************************************************************)
\* C25: the current player always has an assigned id: after every handler
\* (form edits, toggleManualRating, selectTemplate, duplicateCard,
\* loadBatchCard, loadFromHistory) the id of the current player is a
\* non-empty string.
C25_CurrentPlayerHasId ==
    currentPlayer["id"].t = "string" /\ currentPlayer["id"].s # ""

(***************************************************************************)
(* The frame of a failed import.                                           *)
(***************************************************************************)
\* The step in which the call of slot s starts, and the one in which it ends.
Starts(s) == pending[s].kind = "none" /\ pending'[s].kind # "none"

Ends(s) == pending[s].kind # "none" /\ pending'[s].kind = "none"

\* C26: an import call that ends with a pipeline-level error changes nothing
\* but the progress snapshot: the step in which a call starts and the step in
\* which a call ends with an error leave the batch card list and the photo
\* library as they were, and the last step publishes the error snapshot.
C26_FailedImportKeepsCardsAndPhotos ==
    [][\A s \in Slots :
          /\ Starts(s) => /\ batchCards' = batchCards
                          /\ photoLibrary' = photoLibrary
          /\ (Ends(s) /\ lastCall'.outcome = "rejected") =>
                /\ batchCards' = batchCards
                /\ photoLibrary' = photoLibrary
                /\ batchProgress'.status = "error"]_vars

\* An import failed while the batch held the cards of an earlier import.
C26_FailedAfterCardsImported ==
    /\ lastCall.outcome = "rejected"
    /\ batchProgress.status = "error"
    /\ Len(batchCards) > 0

(***************************************************************************)
(* The history in memory and the history in localStorage.                  *)
(***************************************************************************)
\* The call the step makes, if it makes one.
CallMade == Len(storageCalls') = Len(storageCalls) + 1

LastCallMade == storageCalls'[Len(storageCalls')]

\* C27: after saveCardToHistory, removeFromHistory or clearHistory has
\* written the history to localStorage (at once, or as the reduced list of the
\* first 10 cards after a QuotaExceededError), the published history is the
\* history the history key of localStorage holds.
C27_PublishedHistoryIsStoredHistory ==
    [][(/\ CallMade
        /\ LastCallMade.op \in {"saveCardToHistory", "removeFromHistory", "clearHistory"}
        /\ LastCallMade.write \in {"stored", "quota"}) =>
            /\ localStorage'["fifa_card_history"].set
            /\ cardHistory' = localStorage'["fifa_card_history"].value]_vars

\* C28: the entry saveCardToHistory puts first in the history has the id of
\* its playerData, also when the saved player has no id, and no other entry
\* of the history has that id.
C28_SavedEntryIdIsPlayerId ==
    [][(CallMade /\ LastCallMade.op = "saveCardToHistory") =>
            /\ Len(cardHistory') > 0
            /\ cardHistory'[1].id = cardHistory'[1].playerData["id"]
            /\ \A i \in 2..Len(cardHistory') : cardHistory'[i].id # cardHistory'[1].id]_vars

(***************************************************************************)
(* The ids of the records of one import.                                   *)
(***************************************************************************)
\* C29: the records accepted by one CSV or JSON import call have pairwise
\* distinct ids, also when JSON items carry their own id.
C29_AcceptedIdsDistinct ==
    (ReadImport /\ lastCall.outcome = "resolved") =>
        LET success == lastCall.result.success
        IN \A a, b \in 1..Len(success) : a # b => success[a]["id"] # success[b]["id"]

(***************************************************************************)
(* ExportService: the ZIP of a batch export.                               *)
(***************************************************************************)
\* The characters [a-z0-9] matches under the flag i.
Alphanumeric == LowerLetters \cup UpperLetters \cup DigitChars

\* s.replace(/[^a-z0-9]/gi, '_'), on s[lo..hi]
RECURSIVE ReplaceOthers(_, _, _)
ReplaceOthers(s, lo, hi) ==
    IF lo > hi THEN ""
    ELSE IF lo = hi THEN (IF Char(s, lo) \in Alphanumeric THEN Char(s, lo) ELSE "_")
    ELSE ReplaceOthers(s, lo, (lo + hi) \div 2) \o ReplaceOthers(s, (lo + hi) \div 2 + 1, hi)

\* s.replace(/_+/g, '_'), from position i on
RECURSIVE CollapseUnderscores(_, _)
CollapseUnderscores(s, i) ==
    LET u == First(PositionsOf(s, {"_"}, i))
    IN IF u = 0 THEN SubSeq(s, i, Len(s))
       ELSE LET after == First({j \in u..Len(s) : Char(s, j) # "_"})
            IN SubSeq(s, i, u) \o (IF after = 0 THEN "" ELSE CollapseUnderscores(s, after))

\* s.replace(/^_|_$/g, '')
StripEnds(s) ==
    LET a == IF Len(s) > 0 /\ Char(s, 1) = "_" THEN 2 ELSE 1
        b == IF Len(s) >= a /\ Char(s, Len(s)) = "_" THEN Len(s) - 1 ELSE Len(s)
    IN SubSeq(s, a, b)

sanitizeFilename(filename) ==
    Substring(StripEnds(CollapseUnderscores(ReplaceOthers(filename, 1, Len(filename)), 1)),
              0, 50)

\* JSZip: folder.file(name, data) adds the file name or replaces the data of
\* the file that has the name.  The folder after cards[1..n] were added.
RECURSIVE PngFolder(_, _)
PngFolder(cards, n) ==
    IF n = 0 THEN <<>>
    ELSE LET card == cards[n]
             filename == sanitizeFilename(card.playerData["name"]) \o "_FIFA_Card.png"
             base64Data == Split(card.pngData, ",")[2]
         IN MapSet(PngFolder(cards, n - 1), filename, base64Data)

\* The ZIP createBatchExportZip generates: the files of the folder cards and
\* the names of the files at the top level.
createBatchExportZip(cards, pdfData, includeJSON) ==
    [cards |-> PngFolder(cards, Len(cards)),
     top |-> (IF pdfData THEN {"FIFA_Cards_Contact_Sheet.pdf"} ELSE {})
             \cup (IF includeJSON THEN {"fifa_cards_project.json"} ELSE {})]

\* Cards of one batch export.
MaxExportCards == 2

\* Names of exported cards: names that are equal, names that differ in
\* punctuation, spacing or case, and names longer than 50 characters.
ExportNames ==
    {"Larry Mota", "Larry  Mota", "larry mota", "Larry-Mota!", "Sarah Chen", "",
     "Maximilian Alexander Featherstonehaugh-Montgomery the Elder",
     "Maximilian Alexander Featherstonehaugh-Montgomery the Younger"}

ExportCard(name) ==
    [playerData |-> [createDefaultPlayer EXCEPT !["name"] = name],
     pngData |-> "data:image/png;base64,iVBOR" \o ToString(Len(name))]

InitExport ==
    /\ InitCard
    /\ InitBatch
    /\ probe \in {[fn |-> "createBatchExportZip", cards |-> [i \in 1..Len(names) |-> ExportCard(names[i])],
                   pdfData |-> pdf, includeJSON |-> json, done |-> FALSE,
                   zip |-> [cards |-> <<>>, top |-> {}]] :
                      names \in SeqsUpTo(ExportNames, MaxExportCards),
                      pdf \in BOOLEAN, json \in BOOLEAN}

\* One call of ExportService.createBatchExportZip.
CreateBatchExportZip ==
    /\ probe.fn = "createBatchExportZip"
    /\ ~probe.done
    /\ probe' = [probe EXCEPT !.done = TRUE,
                              !.zip = createBatchExportZip(probe.cards, probe.pdfData,
                                                           probe.includeJSON)]
    /\ UNCHANGED <<cardVars, batchVars>>

NextExport == CreateBatchExportZip

SpecExport == InitExport /\ [][NextExport]_vars

\* C30: the ZIP of a batch export holds one PNG file per card: the folder
\* cards has as many files as the export has cards, also when the names of two
\* cards give the same file name.
C30_OnePngPerCard ==
    (probe.fn = "createBatchExportZip" /\ probe.done) =>
        Cardinality(DOMAIN probe.zip.cards) = Len(probe.cards)

====
